---- MODULE Spec2Model ----
(***************************************************************************)
(* docslurp: the indexing pipeline and its persistent store.               *)
(*                                                                         *)
(* One server directory holds config.json and vectors.db (tables chunks,   *)
(* sources and the vec0 virtual table vec_chunks).  The CLI commands       *)
(* create, add, the older add without a sources table, update and sources  *)
(* run one at a time; each is a sequence of steps separated by the awaits  *)
(* on the crawler and on the embedding provider.                           *)
(***************************************************************************)
EXTENDS Integers, Sequences, FiniteSets, TLC

VARIABLES
    exists,   \* the server directory exists (fs.existsSync(serverDir))
    db,       \* vectors.db: tables, AUTOINCREMENT counter, vec_chunks
    config,   \* config.json
    pc,       \* position of the running command, "idle" between commands
    run,      \* locals of the running command
    hist,     \* history variables used to state the properties
    emb,      \* one call of generateEmbeddings, taken alone
    chk,      \* one call of chunkDocuments, taken alone
    nrm,      \* calls of normalizeUrl, taken alone
    crw       \* one call of a crawler, taken alone

\* the variables of the calls taken alone; the commands leave them as they are
aux == <<emb, chk, nrm, crw>>

vars == <<exists, db, config, pc, run, hist, emb, chk, nrm, crw>>

(***************************************************************************)
(* Bounds of the model.                                                    *)
(***************************************************************************)
MaxRuns == 3        \* indexing commands started in one behaviour
MaxLimit == 2       \* largest LIMIT of a findSimilar query

(***************************************************************************)
(* Program constants.                                                      *)
(***************************************************************************)
CHUNK_SIZE == 500
CHUNK_OVERLAP == 50
DefaultMaxPages == 100

NULL == <<>>

(***************************************************************************)
(* URLs.  A string that new URL() parses is a record of its hostname, its  *)
(* pathname and the names of its query parameters, each a sequence of      *)
(* characters; a string that does not parse is its characters.             *)
(***************************************************************************)
Lower(c) == CASE c = "A" -> "a" [] c = "B" -> "b" [] OTHER -> c

LowerSeq(s) == [i \in 1..Len(s) |-> Lower(s[i])]

\* s.replace(/\/$/, ""): one trailing slash only
StripOneTrailingSlash(s) ==
    IF s # <<>> /\ s[Len(s)] = "/" THEN SubSeq(s, 1, Len(s) - 1) ELSE s

RECURSIVE StripTrailingSlashes(_)
\* s.replace(/\/+$/, "")
StripTrailingSlashes(s) ==
    IF s # <<>> /\ s[Len(s)] = "/"
    THEN StripTrailingSlashes(SubSeq(s, 1, Len(s) - 1))
    ELSE s

TrackingParams == {"utm_source", "utm_medium", "utm_campaign"}

NotTracking(p) == p \notin TrackingParams

normalizeUrl(url) ==
    IF url.wf
    THEN LET stripped == StripTrailingSlashes(url.pathname)
         IN  [wf       |-> TRUE,
              hostname |-> LowerSeq(url.hostname),
              pathname |-> IF stripped = <<>> THEN <<"/">> ELSE stripped,
              params   |-> SelectSeq(url.params, NotTracking)]
    ELSE [wf |-> FALSE, raw |-> StripTrailingSlashes(LowerSeq(url.raw))]

Url(host, path, params) ==
    [wf |-> TRUE, hostname |-> host, pathname |-> path, params |-> params]

\* The seed URLs the commands are given: UrlA and UrlAlias normalize to the
\* same string, UrlB to another.
UrlA == Url(<<"a">>, <<"/", "d">>, <<>>)
UrlAlias == Url(<<"A">>, <<"/", "d", "/">>, <<"utm_source">>)
UrlB == Url(<<"b">>, <<"/">>, <<>>)
Urls == {UrlA, UrlAlias, UrlB}

\* the spellings given to create and to the older add; add and update take
\* every spelling
CreateUrls == {UrlAlias, UrlB}

LegacyUrls == {UrlA, UrlB}

(***************************************************************************)
(* Documents and chunks.  The text of a page is known by its length and    *)
(* by its marks: the positions (from 0) that hold a period, a newline or   *)
(* a space; every other position holds a letter.  A chunk's content is     *)
(* the slice [from, to) of the text of its page.                           *)
(***************************************************************************)
Page(url, k) == Url(LowerSeq(url.hostname), <<"/", "p", k>>, <<>>)

\* a text of n letters
Letters(n) == [len |-> n, marks |-> <<>>]

Doc(url, k, n) == [url |-> Page(url, k), title |-> k, content |-> Letters(n)]

Min(a, b) == IF a < b THEN a ELSE b

CharAt(text, p) == IF p \in DOMAIN text.marks THEN text.marks[p] ELSE "a"

IsSpace(c) == c \in {" ", "\n"}

\* text.lastIndexOf(ch, position)
lastIndexOf(text, ch, position) ==
    LET at == {p \in DOMAIN text.marks : text.marks[p] = ch /\ p <= position}
    IN  IF at = {} THEN -1 ELSE CHOOSE p \in at : \A o \in at : o <= p

\* the white space of the text in [from, to)
SpacesIn(text, from, to) ==
    {p \in DOMAIN text.marks : IsSpace(text.marks[p]) /\ from <= p /\ p < to}

\* the first position of [from, to) that holds no white space, or `to`: it
\* is `from` or follows a white-space character
TrimStart(text, from, to) ==
    LET sp == SpacesIn(text, from, to)
        kept == ({from} \cup {q + 1 : q \in sp}) \ sp
        inside == {p \in kept : p < to}
    IN  IF from >= to THEN from
        ELSE IF inside = {} THEN to
        ELSE CHOOSE p \in inside : \A o \in inside : p <= o

\* just after the last position of [from, to) that holds no white space, or
\* `from`: that position is to - 1 or precedes a white-space character
TrimEnd(text, from, to) ==
    LET sp == SpacesIn(text, from, to)
        kept == ({to - 1} \cup {q - 1 : q \in sp}) \ sp
        inside == {p \in kept : p >= from}
    IN  IF from >= to THEN to
        ELSE IF inside = {} THEN from
        ELSE (CHOOSE p \in inside : \A o \in inside : o <= p) + 1

\* text.slice(start, end).trim(), as [from, to)
SliceTrim(text, start, end) ==
    LET Trimmed(to0) ==
            {[from |-> from, to |-> TrimEnd(text, from, to0)] :
                from \in {TrimStart(text, start, to0)}}
    IN  CHOOSE slice \in Trimmed(Min(end, text.len)) : TRUE

\* Math.max(lastPeriod, lastNewline) for the tentative end `end`
Boundary(text, end) ==
    IF lastIndexOf(text, ".", end) > lastIndexOf(text, "\n", end)
    THEN lastIndexOf(text, ".", end)
    ELSE lastIndexOf(text, "\n", end)

\* the end of the window with every boundary after `start` accepted
WindowEndAnyBoundary(text, start) ==
    LET end == start + CHUNK_SIZE * 4
        boundary == Boundary(text, end)
    IN  IF end < text.len /\ boundary > start THEN boundary + 1 ELSE end

\* the end of the window that starts at `start`: the hard cut, or just after
\* the last period or newline when that is in the second half of the window
WindowEnd(text, start) ==
    LET charSize == CHUNK_SIZE * 4
        end == start + charSize
        boundary == Boundary(text, end)
    IN  IF end < text.len /\ 2 * boundary > 2 * start + charSize
        THEN boundary + 1
        ELSE end

RECURSIVE SlideWindows(_, _, _)
\* the while loop of chunkDocuments over one document, from `start` on
SlideWindows(doc, start, chunkIndex) ==
    LET charOverlap == CHUNK_OVERLAP * 4
        end == WindowEnd(doc.content, start)
        chunkText == SliceTrim(doc.content, start, end)
        emit == chunkText.to - chunkText.from > 50
        chunk == [content    |-> chunkText,
                  url        |-> doc.url,
                  title      |-> doc.title,
                  chunkIndex |-> chunkIndex,
                  embedding  |-> NULL]
    IN  IF start < doc.content.len
        THEN (IF emit THEN <<chunk>> ELSE <<>>)
             \o SlideWindows(doc, end - charOverlap,
                             IF emit THEN chunkIndex + 1 ELSE chunkIndex)
        ELSE <<>>

ChunkOne(doc) ==
    IF doc.content.len <= CHUNK_SIZE * 4
    THEN << [content    |-> [from |-> 0, to |-> doc.content.len],
             url        |-> doc.url,
             title      |-> doc.title,
             chunkIndex |-> 0,
             embedding  |-> NULL] >>
    ELSE SlideWindows(doc, 0, 0)

RECURSIVE chunkDocuments(_)
chunkDocuments(documents) ==
    IF documents = <<>> THEN <<>>
    ELSE ChunkOne(Head(documents)) \o chunkDocuments(Tail(documents))

\* new Set(chunks.map((c) => c.url)).size
PageCountOf(chunks) == Cardinality({chunks[i].url : i \in 1..Len(chunks)})

(***************************************************************************)
(* Embeddings.  A provider component is a number in 0..3; Float32Array     *)
(* rounds it to the representable values 0 and 2.  The bytes of the        *)
(* rounded components are what chunks.embedding_blob and, through the      *)
(* x'..' literal and vec_f32, vec_chunks.embedding hold.                   *)
(***************************************************************************)
ToFloat32(x) == x - (x % 2)

\* Buffer.from(new Uint8Array(new Float32Array(embedding).buffer))
Float32Bytes(embedding) == [i \in 1..Len(embedding) |-> ToFloat32(embedding[i])]

RECURSIVE SumSeq(_)
SumSeq(s) == IF s = <<>> THEN 0 ELSE Head(s) + SumSeq(Tail(s))

\* the distance vec0 orders by: monotone in the L2 distance
Distance(a, b) ==
    SumSeq([i \in 1..Len(a) |-> (a[i] - b[i]) * (a[i] - b[i])])

(***************************************************************************)
(* The store.  A row of chunks always shows source_id and embedding_blob:  *)
(* while the column is missing (hasSourceId, hasBlob) the field holds the  *)
(* value ALTER TABLE ADD COLUMN gives the row, DEFAULT 0 and NULL, and no  *)
(* statement of the program can write it.  sources is kept in id order;    *)
(* its rows are never deleted, so AUTOINCREMENT gives Len(sources) + 1.    *)
(* chunkSeq is sqlite_sequence for chunks.  vec is vec_chunks.             *)
(***************************************************************************)
NoDatabase ==
    [hasSources  |-> FALSE,
     sources     |-> <<>>,
     hasSourceId |-> FALSE,
     hasBlob     |-> FALSE,
     chunks      |-> {},
     chunkSeq    |-> 0,
     vec         |-> {}]

VecKeys(d) == {v.rowid : v \in d.vec}

ChunkIds(d) == {c.id : c \in d.chunks}

tableExists(d) == d.hasSources

SourceRow(id, url) ==
    [id |-> id, url |-> url, page_count |-> 0, chunk_count |-> 0,
     crawl_state |-> NULL]

\* the sources of config.json inserted at every call, whether the table
\* exists or not
MigrateInsertingAlways(d, configSources) ==
    [d EXCEPT !.hasSources = TRUE,
              !.sources = @ \o [i \in 1..Len(configSources) |->
                                  SourceRow(Len(d.sources) + i, configSources[i])],
              !.hasSourceId = TRUE,
              !.hasBlob = TRUE]

migrateDatabase(d, configSources) ==
    LET d1 == IF ~tableExists(d)
              THEN [d EXCEPT !.hasSources = TRUE,
                             !.sources = [i \in 1..Len(configSources) |->
                                             SourceRow(i, configSources[i])]]
              ELSE d
    IN  [d1 EXCEPT !.hasSourceId = TRUE, !.hasBlob = TRUE]

RECURSIVE FirstMatch(_, _)
FirstMatch(rows, normalizedUrl) ==
    IF rows = <<>> THEN NULL
    ELSE IF normalizeUrl(Head(rows).url) = normalizedUrl THEN Head(rows)
    ELSE FirstMatch(Tail(rows), normalizedUrl)

findSourceByUrl(d, url) == FirstMatch(d.sources, normalizeUrl(url))

getSources(d) == IF ~tableExists(d) THEN <<>> ELSE d.sources

\* the store after the call, and the id returned
getOrCreateSource(d, url) ==
    LET existing == findSourceByUrl(d, url)
        id == Len(d.sources) + 1
    IN  IF existing # NULL
        THEN [db |-> d, id |-> existing.id]
        ELSE [db |-> [d EXCEPT !.sources = Append(@, SourceRow(id, url))],
              id |-> id]

updateSourceMetadata(d, sourceId, pageCount, chunkCount) ==
    [d EXCEPT !.sources =
        [i \in 1..Len(@) |->
            IF @[i].id = sourceId
            THEN [@[i] EXCEPT !.page_count = pageCount,
                              !.chunk_count = chunkCount]
            ELSE @[i]]]

clearCrawlState(d, sourceId) ==
    [d EXCEPT !.sources =
        [i \in 1..Len(@) |->
            IF @[i].id = sourceId
            THEN [@[i] EXCEPT !.crawl_state = NULL]
            ELSE @[i]]]

\* a crawl state with pending URLs, as saveCrawlState would have stored it
CrawlStatePending(d, sourceId) ==
    [pendingUrls |-> <<UrlA>>, maxPagesReached |-> TRUE]

getCrawlState(d, sourceId) ==
    LET found == {i \in 1..Len(d.sources) : d.sources[i].id = sourceId}
    IN  IF found = {} THEN NULL
        ELSE d.sources[CHOOSE i \in found : TRUE].crawl_state

DeleteNothing(d, sourceId) == d

deleteChunksForSource(d, sourceId) ==
    [d EXCEPT !.chunks = {c \in @ : c.source_id # sourceId}]

\* result.changes of deleteChunksForSource
DeletedCount(d, sourceId) ==
    Cardinality({c \in d.chunks : c.source_id = sourceId})

RebuildWithoutDrop(d) ==
    [d EXCEPT !.vec = @ \cup
        {[rowid |-> c.id, embedding |-> c.embedding_blob] :
            c \in {x \in d.chunks : x.embedding_blob # NULL
                                    /\ x.id \notin VecKeys(d)}}]

rebuildVectorTable(d) ==
    [d EXCEPT !.vec =
        {[rowid |-> c.id, embedding |-> c.embedding_blob] :
            c \in {x \in d.chunks : x.embedding_blob # NULL}}]

\* INSERT INTO vec_chunks (rowid, embedding): a rowid already there is a
\* constraint failure, which throws.
VecInsert(d, rowid, embedding) ==
    IF rowid \in VecKeys(d)
    THEN [db |-> d, ok |-> FALSE]
    ELSE [db |-> [d EXCEPT !.vec = @ \cup
                     {[rowid |-> rowid, embedding |-> embedding]}],
          ok |-> TRUE]

\* the insert on a table whose id is the largest id present plus one
InsertChunkReusingIds(d, chunk, sourceId) ==
    LET embeddingBlob == IF chunk.embedding # NULL
                         THEN Float32Bytes(chunk.embedding)
                         ELSE NULL
        chunkId == IF d.chunks = {} THEN 1
                   ELSE (CHOOSE m \in ChunkIds(d) :
                            \A k \in ChunkIds(d) : k <= m) + 1
        row == [id             |-> chunkId,
                content        |-> chunk.content,
                url            |-> chunk.url,
                title          |-> chunk.title,
                chunk_index    |-> chunk.chunkIndex,
                source_id      |-> sourceId,
                embedding_blob |-> embeddingBlob]
        d1 == [d EXCEPT !.chunks = @ \cup {row},
                        !.chunkSeq = IF chunkId > @ THEN chunkId ELSE @]
    IN  IF embeddingBlob # NULL
        THEN VecInsert(d1, chunkId, embeddingBlob)
        ELSE [db |-> d1, ok |-> TRUE]

\* the store after the call, and whether the call returned (ok) or threw
insertChunkWithEmbedding(d, chunk, sourceId) ==
    LET embeddingBlob == IF chunk.embedding # NULL
                         THEN Float32Bytes(chunk.embedding)
                         ELSE NULL
        chunkId == d.chunkSeq + 1
        row == [id             |-> chunkId,
                content        |-> chunk.content,
                url            |-> chunk.url,
                title          |-> chunk.title,
                chunk_index    |-> chunk.chunkIndex,
                source_id      |-> sourceId,
                embedding_blob |-> embeddingBlob]
        d1 == [d EXCEPT !.chunks = @ \cup {row}, !.chunkSeq = chunkId]
    IN  IF embeddingBlob # NULL
        THEN VecInsert(d1, chunkId, embeddingBlob)
        ELSE [db |-> d1, ok |-> TRUE]

(***************************************************************************)
(* findSimilar.  The hits are the `limit` rows of vec_chunks nearest to    *)
(* the query, in ascending distance; rows at equal distance come in any    *)
(* order.  Each hit is LEFT JOINed with chunks: a rowid with no chunk row  *)
(* yields NULL content, url and title.                                     *)
(***************************************************************************)
RECURSIVE Nearest(_, _, _)
\* ORDER BY distance LIMIT n over the rows `rows`
Nearest(rows, q, n) ==
    IF n = 0 \/ rows = {} THEN {<<>>}
    ELSE LET first == {v \in rows : \A o \in rows :
                          Distance(v.embedding, q) <= Distance(o.embedding, q)}
         IN  UNION {{<<v>> \o t : t \in Nearest(rows \ {v}, q, n - 1)} :
                    v \in first}

Hits(d, embedding, limit) == Nearest(d.vec, Float32Bytes(embedding), limit)

JoinChunks(d, v, q) ==
    LET match == {c \in d.chunks : c.id = v.rowid}
    IN  IF match = {}
        THEN [content |-> NULL, url |-> NULL, title |-> NULL,
              distance |-> Distance(v.embedding, q)]
        ELSE LET c == CHOOSE c \in match : TRUE
             IN  [content |-> c.content, url |-> c.url, title |-> c.title,
                  distance |-> Distance(v.embedding, q)]

\* the results findSimilar may return
findSimilar(d, embedding, limit) ==
    {[i \in 1..Len(h) |-> JoinChunks(d, h[i], Float32Bytes(embedding))] :
        h \in Hits(d, embedding, limit)}

(***************************************************************************)
(* config.json.  `sources` is absent (hasSources FALSE) in a config        *)
(* written by create.  An entry of it is known by its url; addedAt, like   *)
(* sources.added_at, is a timestamp nothing reads back and is left out.    *)
(***************************************************************************)
NoConfig ==
    [sourceUrl |-> NULL, hasSources |-> FALSE, sources |-> <<>>,
     pageCount |-> 0, chunkCount |-> 0]

\* config.sources || (config.sourceUrl ? [{ url: config.sourceUrl, ... }] : [])
legacySources(cfg) ==
    IF cfg.hasSources THEN cfg.sources
    ELSE IF cfg.sourceUrl # NULL THEN <<cfg.sourceUrl>>
    ELSE <<>>

(***************************************************************************)
(* The collaborators.  A crawl of a seed URL throws or returns one of the  *)
(* sites below, of at most maxPages pages; the long page gives two         *)
(* windows.  An embedding request throws or answers every text with the    *)
(* vector of that text, here a function of the length of the text.         *)
(***************************************************************************)
Sites(url) ==
    { <<>>,
      <<Doc(url, "1", 300)>>,
      <<Doc(url, "1", 3000), Doc(url, "2", 300)>> }

CrawlResults(url, maxPages) == {s \in Sites(url) : Len(s) <= maxPages}

ProviderVector(content) == <<((content.to - content.from) \div 100) % 4>>

\* the loop over the batches stops one chunk short
EmbeddedButLast(chunks) ==
    [j \in 1..Len(chunks) |->
        IF j < Len(chunks)
        THEN [chunks[j] EXCEPT !.embedding = ProviderVector(chunks[j].content)]
        ELSE chunks[j]]

\* generateEmbeddings on success: batch[j].embedding = response.data[j].embedding
Embedded(chunks) ==
    [j \in 1..Len(chunks) |->
        [chunks[j] EXCEPT !.embedding = ProviderVector(chunks[j].content)]]

(***************************************************************************)
(* The running command and the history.                                    *)
(***************************************************************************)
NoRun ==
    [op |-> "none", url |-> NULL, force |-> FALSE, continue |-> FALSE,
     maxPages |-> 0, existingSource |-> NULL, sourceId |-> 0, isUpdate |-> FALSE,
     sourcesToUpdate |-> <<>>, queue |-> <<>>, documents |-> <<>>, chunks |-> <<>>, todo |-> <<>>,
     maxPagesReached |-> FALSE, totalPages |-> 0, totalChunks |-> 0,
     done |-> <<>>, visited |-> <<>>]

NoLast ==
    [op |-> "none", url |-> NULL, force |-> FALSE, outcome |-> "none",
     sourceId |-> 0, isUpdate |-> FALSE, sourcesToUpdate |-> <<>>,
     done |-> <<>>, visited |-> <<>>, at |-> "idle"]

\* hist.runs      indexing commands started
\* hist.pre       the store, the config and `indexed` when the last indexing
\*                command started
\* hist.origin    for each chunk id ever assigned, the command and seed URL
\*                it was crawled for
\* hist.indexed   normalized seed URL -> documents of its last indexing
\* hist.last      the indexing command that ended last, and how
\* hist.pending   source ids given to deleteChunksForSource with no insert
\*                for them and no rebuild since
\* hist.purged    the ids that were pending at a rebuild, as long as chunks
\*                and vec_chunks are as that rebuild left them
\* hist.rebuilds  calls of rebuildVectorTable since the last indexing command
\*                started
\* hist.last.at   the position at which the command ended
\* run.visited    the ids of the sources whose cycle an update has started
NoPre == [db |-> NoDatabase, config |-> NoConfig, indexed |-> <<>>]

NormUrls == {normalizeUrl(u) : u \in Urls}

Begin(h) ==
    [h EXCEPT !.runs = @ + 1, !.rebuilds = 0,
              !.pre = [db |-> db, config |-> config, indexed |-> h.indexed]]

\* the chunk ids assigned up to store d are given their origin
Assigned(h, d, op, seed) ==
    [h EXCEPT !.origin = @ \o
        [i \in 1..(d.chunkSeq - Len(@)) |-> [op |-> op, seed |-> seed]]]

Ended(h, r, outcome) ==
    [h EXCEPT !.last = [op |-> r.op, url |-> r.url, force |-> r.force,
                        outcome |-> outcome, sourceId |-> r.sourceId,
                        isUpdate |-> r.isUpdate,
                        sourcesToUpdate |-> r.sourcesToUpdate,
                        done |-> r.done, visited |-> r.visited,
                        at |-> pc]]

DeletedFor(h, sourceId) ==
    [h EXCEPT !.pending = @ \cup {sourceId}, !.purged = {}]

InsertedFor(h, sourceId) ==
    [h EXCEPT !.pending = @ \ {sourceId}, !.purged = {}]

Rebuilt(h) == [h EXCEPT !.purged = h.pending, !.pending = {},
                        !.rebuilds = @ + 1]

Indexed(h, url, documents) ==
    [h EXCEPT !.indexed = [n \in NormUrls |->
        IF n = normalizeUrl(url) THEN documents ELSE @[n]]]

\* no call of generateEmbeddings or chunkDocuments taken alone
NoEmbedding == [pc |-> "none"]

NoChunking == [pc |-> "none"]

\* no call of normalizeUrl is being followed
NoNormalizing == [pc |-> "none"]

\* no call of a crawler is being followed
NoCrawling == [pc |-> "none"]

Init ==
    /\ exists = FALSE
    /\ db = NoDatabase
    /\ config = NoConfig
    /\ pc = "idle"
    /\ run = NoRun
    /\ hist = [runs |-> 0, pre |-> NoPre, origin |-> <<>>,
               indexed |-> [n \in NormUrls |-> <<>>], last |-> NoLast,
               pending |-> {}, purged |-> {}, rebuilds |-> 0]
    /\ emb = NoEmbedding
    /\ chk = NoChunking
    /\ nrm = NoNormalizing
    /\ crw = NoCrawling

\* the process ends at once: process.exit(1) or an uncaught rejection
Exit(outcome) ==
    /\ pc' = "idle"
    /\ run' = NoRun
    /\ hist' = Ended(hist, run, outcome)

(***************************************************************************)
(* create                                                                  *)
(***************************************************************************)
\* create with no test of the server directory
CreateStartOverwriting ==
    /\ pc = "idle"
    /\ hist.runs < MaxRuns
    /\ \E url \in CreateUrls :
        /\ run' = [NoRun EXCEPT !.op = "create", !.url = url,
                                !.maxPages = DefaultMaxPages]
        /\ hist' = Begin(hist)
    /\ pc' = "create_crawl"
    /\ UNCHANGED <<exists, db, config>>
    /\ UNCHANGED aux

\* createServer up to the crawl: process.exit(1) when the server directory
\* exists
CreateStart ==
    /\ pc = "idle"
    /\ hist.runs < MaxRuns
    /\ \E url \in CreateUrls :
        LET r == [NoRun EXCEPT !.op = "create", !.url = url,
                              !.maxPages = DefaultMaxPages]
        IN  IF exists
            THEN /\ pc' = "idle"
                 /\ run' = NoRun
                 /\ hist' = Ended(Begin(hist), r, "exit")
            ELSE /\ pc' = "create_crawl"
                 /\ run' = r
                 /\ hist' = Begin(hist)
    /\ UNCHANGED <<exists, db, config>>
    /\ UNCHANGED aux

CreateCrawl ==
    /\ pc = "create_crawl"
    /\ \/ Exit("exit")                               \* the crawl threw
       \/ \E documents \in CrawlResults(run.url, run.maxPages) :
            IF documents = <<>>
            THEN Exit("exit")
            ELSE /\ run' = [run EXCEPT !.documents = documents,
                                       !.chunks = chunkDocuments(documents)]
                 /\ pc' = "create_embed"
                 /\ UNCHANGED hist
    /\ UNCHANGED <<exists, db, config>>
    /\ UNCHANGED aux

CreateEmbed ==
    /\ pc = "create_embed"
    /\ \/ Exit("exit")                               \* generateEmbeddings threw
       \/ /\ run' = [run EXCEPT !.chunks = Embedded(run.chunks)]
          /\ pc' = "create_generate"
          /\ UNCHANGED hist
    /\ UNCHANGED <<exists, db, config>>
    /\ UNCHANGED aux

RECURSIVE InsertPositional(_, _, _, _)
\* the insert loop of generateMcpServer and of the older add: the chunk row
\* takes the next AUTOINCREMENT id and none of the later columns, the
\* embedding takes rowid firstRowId + i; the loop stops where an insert throws
InsertPositional(d, chunks, i, firstRowId) ==
    IF i >= Len(chunks) THEN [db |-> d, ok |-> TRUE]
    ELSE LET chunk == chunks[i + 1]
             row == [id             |-> d.chunkSeq + 1,
                     content        |-> chunk.content,
                     url            |-> chunk.url,
                     title          |-> chunk.title,
                     chunk_index    |-> chunk.chunkIndex,
                     source_id      |-> 0,
                     embedding_blob |-> NULL]
             d1 == [d EXCEPT !.chunks = @ \cup {row}, !.chunkSeq = @ + 1]
             r == IF chunk.embedding # NULL
                  THEN VecInsert(d1, firstRowId + i, Float32Bytes(chunk.embedding))
                  ELSE [db |-> d1, ok |-> TRUE]
         IN  IF r.ok THEN InsertPositional(r.db, chunks, i + 1, firstRowId)
             ELSE r

\* the store is new, so no insert of the loop throws
generateMcpServer ==
    /\ pc = "create_generate"
    /\ LET r == InsertPositional(NoDatabase, run.chunks, 0, 1)
       IN  /\ exists' = TRUE
           /\ db' = r.db
           /\ config' = [NoConfig EXCEPT !.sourceUrl = run.url,
                                         !.pageCount = PageCountOf(run.chunks),
                                         !.chunkCount = Len(run.chunks)]
           /\ hist' = Indexed(Ended(Assigned(InsertedFor(hist, 0), r.db,
                                             "create", run.url),
                                    run, "ok"),
                              run.url, run.documents)
    /\ pc' = "idle"
    /\ run' = NoRun
    /\ UNCHANGED aux

(***************************************************************************)
(* add                                                                     *)
(***************************************************************************)
\* from the start of addToServer to the await on the crawler
AddOpen ==
    /\ pc = "idle"
    /\ hist.runs < MaxRuns
    /\ exists
    /\ \E url \in Urls, force \in BOOLEAN, continue \in BOOLEAN,
          maxPages \in {1, DefaultMaxPages} :
        LET d1 == migrateDatabase(db, legacySources(config))
            existingSource == findSourceByUrl(d1, url)
            r0 == [NoRun EXCEPT !.op = "add", !.url = url, !.force = force,
                                !.continue = continue, !.maxPages = maxPages,
                                !.existingSource = existingSource]
        IN  IF existingSource # NULL /\ ~force
            THEN IF continue
                 THEN LET crawlState == getCrawlState(d1, existingSource.id)
                      IN  IF crawlState = NULL \/ crawlState.pendingUrls = <<>>
                          THEN /\ db' = d1
                               /\ pc' = "idle"
                               /\ run' = NoRun
                               /\ hist' = Ended(Begin(hist), r0, "exit")
                          ELSE /\ db' = d1
                               /\ pc' = "add_crawl"
                               /\ run' = [r0 EXCEPT !.sourceId = existingSource.id]
                               /\ hist' = Begin(hist)
                 ELSE /\ db' = deleteChunksForSource(d1, existingSource.id)
                      /\ pc' = "add_crawl"
                      /\ run' = [r0 EXCEPT !.sourceId = existingSource.id,
                                           !.isUpdate = TRUE]
                      /\ hist' = DeletedFor(Begin(hist), existingSource.id)
            ELSE LET r == getOrCreateSource(d1, url)
                 IN  /\ db' = r.db
                     /\ pc' = "add_crawl"
                     /\ run' = [r0 EXCEPT !.sourceId = r.id]
                     /\ hist' = Begin(hist)
    /\ UNCHANGED <<exists, config>>
    /\ UNCHANGED aux

AddCrawl ==
    /\ pc = "add_crawl"
    /\ \/ Exit("crash")                              \* the crawl threw
       \/ \E documents \in CrawlResults(run.url, run.maxPages) :
            IF documents = <<>>
            THEN Exit("exit")
            ELSE /\ run' = [run EXCEPT
                               !.documents = documents,
                               !.maxPagesReached = (Len(documents) >= run.maxPages),
                               !.chunks = chunkDocuments(documents)]
                 /\ pc' = "add_embed"
                 /\ UNCHANGED hist
    /\ UNCHANGED <<exists, db, config>>
    /\ UNCHANGED aux

AddEmbed ==
    /\ pc = "add_embed"
    /\ \/ Exit("crash")                              \* generateEmbeddings threw
       \/ /\ run' = [run EXCEPT !.chunks = Embedded(run.chunks),
                               !.todo = Embedded(run.chunks)]
          /\ pc' = "add_insert"
          /\ UNCHANGED hist
    /\ UNCHANGED <<exists, db, config>>
    /\ UNCHANGED aux

\* one turn of the loop over chunks
AddInsert ==
    /\ pc = "add_insert"
    /\ run.todo # <<>>
    /\ LET r == insertChunkWithEmbedding(db, Head(run.todo), run.sourceId)
       IN  /\ db' = r.db
           /\ IF r.ok
              THEN /\ run' = [run EXCEPT !.todo = Tail(@)]
                   /\ pc' = "add_insert"
                   /\ hist' = Assigned(InsertedFor(hist, run.sourceId), r.db,
                                       "add", run.url)
              ELSE /\ run' = NoRun
                   /\ pc' = "idle"
                   /\ hist' = Ended(Assigned(InsertedFor(hist, run.sourceId),
                                             r.db, "add", run.url),
                                    run, "crash")
    /\ UNCHANGED <<exists, config>>
    /\ UNCHANGED aux

\* from the end of the loop to the end of addToServer
AddCommit ==
    /\ pc = "add_insert"
    /\ run.todo = <<>>
    /\ LET pageCount == PageCountOf(run.chunks)
           d1 == updateSourceMetadata(db, run.sourceId, pageCount, Len(run.chunks))
           d2 == IF run.isUpdate THEN rebuildVectorTable(d1) ELSE d1
           d3 == IF ~run.maxPagesReached THEN clearCrawlState(d2, run.sourceId)
                 ELSE d2
           list == IF ~config.hasSources THEN legacySources(config)
                   ELSE config.sources
       IN  /\ db' = d3
           /\ config' = [config EXCEPT
                  !.hasSources = TRUE,
                  !.sources = IF run.existingSource = NULL \/ run.force
                              THEN Append(list, run.url) ELSE list,
                  !.pageCount = @ + pageCount,
                  !.chunkCount = @ + Len(run.chunks)]
           /\ hist' = Indexed(Ended(IF run.isUpdate THEN Rebuilt(hist) ELSE hist,
                                    run, "ok"),
                              run.url, run.documents)
    /\ pc' = "idle"
    /\ run' = NoRun
    /\ UNCHANGED exists
    /\ UNCHANGED aux

(***************************************************************************)
(* the older add: no sources table, rowids from MAX(id)                    *)
(***************************************************************************)
LegacyAddStart ==
    /\ pc = "idle"
    /\ hist.runs < MaxRuns
    /\ exists
    /\ \E url \in LegacyUrls :
        /\ run' = [NoRun EXCEPT !.op = "legacy_add", !.url = url,
                                !.maxPages = DefaultMaxPages]
        /\ hist' = Begin(hist)
    /\ pc' = "legacy_crawl"
    /\ UNCHANGED <<exists, db, config>>
    /\ UNCHANGED aux

LegacyAddCrawl ==
    /\ pc = "legacy_crawl"
    /\ \/ Exit("crash")
       \/ \E documents \in CrawlResults(run.url, run.maxPages) :
            IF documents = <<>>
            THEN Exit("exit")
            ELSE /\ run' = [run EXCEPT !.documents = documents,
                                       !.chunks = chunkDocuments(documents)]
                 /\ pc' = "legacy_embed"
                 /\ UNCHANGED hist
    /\ UNCHANGED <<exists, db, config>>
    /\ UNCHANGED aux

LegacyAddEmbed ==
    /\ pc = "legacy_embed"
    /\ \/ Exit("crash")
       \/ /\ run' = [run EXCEPT !.chunks = Embedded(run.chunks)]
          /\ pc' = "legacy_write"
          /\ UNCHANGED hist
    /\ UNCHANGED <<exists, db, config>>
    /\ UNCHANGED aux

\* SELECT MAX(id) as maxId FROM chunks, then maxId || 0
MaxIdOrZero(d) ==
    IF d.chunks = {} THEN 0
    ELSE CHOOSE m \in ChunkIds(d) : \A k \in ChunkIds(d) : k <= m

LegacyAddWrite ==
    /\ pc = "legacy_write"
    /\ LET startRowId == MaxIdOrZero(db) + 1
           r == InsertPositional(db, run.chunks, 0, startRowId)
           list == IF ~config.hasSources THEN <<config.sourceUrl>>
                   ELSE config.sources
       IN  /\ db' = r.db
           /\ IF r.ok
              THEN /\ config' = [config EXCEPT
                         !.hasSources = TRUE,
                         !.sources = Append(list, run.url),
                         !.pageCount = @ + PageCountOf(run.chunks),
                         !.chunkCount = @ + Len(run.chunks)]
                   /\ hist' = Indexed(Ended(Assigned(InsertedFor(hist, 0), r.db,
                                                     "legacy_add", run.url),
                                            run, "ok"),
                                      run.url, run.documents)
              ELSE /\ config' = config
                   /\ hist' = Ended(Assigned(InsertedFor(hist, 0), r.db,
                                             "legacy_add", run.url),
                                    run, "crash")
    /\ pc' = "idle"
    /\ run' = NoRun
    /\ UNCHANGED exists
    /\ UNCHANGED aux

(***************************************************************************)
(* update                                                                  *)
(***************************************************************************)
\* from the start of updateServer to the loop; options.url is NULL when
\* the option is not given
UpdateOpen ==
    /\ pc = "idle"
    /\ hist.runs < MaxRuns
    /\ exists
    /\ \E url \in Urls \cup {NULL} :
        LET d1 == migrateDatabase(db, legacySources(config))
            source == IF url # NULL THEN findSourceByUrl(d1, url) ELSE NULL
            sourcesToUpdate == IF url # NULL THEN <<source>> ELSE getSources(d1)
            r0 == [NoRun EXCEPT !.op = "update", !.url = url,
                                !.maxPages = DefaultMaxPages]
        IN  /\ db' = d1
            /\ IF (url # NULL /\ source = NULL) \/ sourcesToUpdate = <<>>
               THEN /\ pc' = "idle"
                    /\ run' = NoRun
                    /\ hist' = Ended(Begin(hist), r0, "exit")
               ELSE /\ pc' = "update_loop"
                    /\ run' = [r0 EXCEPT !.sourcesToUpdate = sourcesToUpdate,
                                         !.queue = sourcesToUpdate]
                    /\ hist' = Begin(hist)
    /\ UNCHANGED <<exists, config>>
    /\ UNCHANGED aux

\* the head of the loop body, to the await on the crawler
UpdateDelete ==
    /\ pc = "update_loop"
    /\ run.queue # <<>>
    /\ db' = deleteChunksForSource(db, Head(run.queue).id)
    /\ pc' = "update_crawl"
    /\ run' = [run EXCEPT !.sourceId = Head(run.queue).id,
                          !.visited = Append(@, Head(run.queue).id)]
    /\ hist' = DeletedFor(hist, Head(run.queue).id)
    /\ UNCHANGED <<exists, config>>
    /\ UNCHANGED aux

\* a crawl that throws ends the command, as it does in add
UpdateCrawlFatal ==
    /\ pc = "update_crawl"
    /\ \/ /\ Exit("crash")
          /\ UNCHANGED db
       \/ \E documents \in CrawlResults(Head(run.queue).url, run.maxPages) :
            /\ IF documents = <<>>
               THEN /\ run' = [run EXCEPT !.queue = Tail(@)]
                    /\ pc' = "update_loop"
               ELSE /\ run' = [run EXCEPT !.documents = documents,
                                          !.chunks = chunkDocuments(documents)]
                    /\ pc' = "update_embed"
            /\ UNCHANGED <<db, hist>>
    /\ UNCHANGED <<exists, config>>
    /\ UNCHANGED aux

UpdateCrawl ==
    /\ pc = "update_crawl"
    /\ \/ /\ run' = [run EXCEPT !.queue = Tail(@)]   \* the crawl threw: continue
          /\ pc' = "update_loop"
       \/ \E documents \in CrawlResults(Head(run.queue).url, run.maxPages) :
            IF documents = <<>>
            THEN /\ run' = [run EXCEPT !.queue = Tail(@)]
                 /\ pc' = "update_loop"
            ELSE /\ run' = [run EXCEPT !.documents = documents,
                                       !.chunks = chunkDocuments(documents)]
                 /\ pc' = "update_embed"
    /\ UNCHANGED <<exists, db, config, hist>>
    /\ UNCHANGED aux

UpdateEmbed ==
    /\ pc = "update_embed"
    /\ \/ Exit("crash")                              \* generateEmbeddings threw
       \/ /\ run' = [run EXCEPT !.chunks = Embedded(run.chunks),
                               !.todo = Embedded(run.chunks)]
          /\ pc' = "update_insert"
          /\ UNCHANGED hist
    /\ UNCHANGED <<exists, db, config>>
    /\ UNCHANGED aux

UpdateInsert ==
    /\ pc = "update_insert"
    /\ run.todo # <<>>
    /\ LET source == Head(run.queue)
           r == insertChunkWithEmbedding(db, Head(run.todo), source.id)
       IN  /\ db' = r.db
           /\ IF r.ok
              THEN /\ run' = [run EXCEPT !.todo = Tail(@)]
                   /\ pc' = "update_insert"
                   /\ hist' = Assigned(InsertedFor(hist, source.id), r.db,
                                       "update", source.url)
              ELSE /\ run' = NoRun
                   /\ pc' = "idle"
                   /\ hist' = Ended(Assigned(InsertedFor(hist, source.id),
                                             r.db, "update", source.url),
                                    run, "crash")
    /\ UNCHANGED <<exists, config>>
    /\ UNCHANGED aux

\* the rebuild is done at the tail of every cycle
UpdateMetadataRebuilding ==
    /\ pc = "update_insert"
    /\ run.todo = <<>>
    /\ LET source == Head(run.queue)
           pageCount == PageCountOf(run.chunks)
       IN  /\ db' = rebuildVectorTable(clearCrawlState(
                        updateSourceMetadata(db, source.id, pageCount,
                                             Len(run.chunks)),
                        source.id))
           /\ run' = [run EXCEPT
                         !.totalPages = @ + pageCount,
                         !.totalChunks = @ + Len(run.chunks),
                         !.done = Append(@, [id |-> source.id,
                                             url |-> source.url,
                                             documents |-> run.documents]),
                         !.queue = Tail(@)]
           /\ hist' = Rebuilt(Indexed(hist, source.url, run.documents))
    /\ pc' = "update_loop"
    /\ UNCHANGED <<exists, config>>
    /\ UNCHANGED aux

\* the tail of the loop body
UpdateMetadata ==
    /\ pc = "update_insert"
    /\ run.todo = <<>>
    /\ LET source == Head(run.queue)
           pageCount == PageCountOf(run.chunks)
       IN  /\ db' = clearCrawlState(
                        updateSourceMetadata(db, source.id, pageCount,
                                             Len(run.chunks)),
                        source.id)
           /\ run' = [run EXCEPT
                         !.totalPages = @ + pageCount,
                         !.totalChunks = @ + Len(run.chunks),
                         !.done = Append(@, [id |-> source.id,
                                             url |-> source.url,
                                             documents |-> run.documents]),
                         !.queue = Tail(@)]
           /\ hist' = Indexed(hist, source.url, run.documents)
    /\ pc' = "update_loop"
    /\ UNCHANGED <<exists, config>>
    /\ UNCHANGED aux

\* after the loop
UpdateFinish ==
    /\ pc = "update_loop"
    /\ run.queue = <<>>
    /\ db' = rebuildVectorTable(db)
    /\ config' = [config EXCEPT !.pageCount = run.totalPages,
                                !.chunkCount = run.totalChunks]
    /\ hist' = Ended(Rebuilt(hist), run, "ok")
    /\ pc' = "idle"
    /\ run' = NoRun
    /\ UNCHANGED exists
    /\ UNCHANGED aux

(***************************************************************************)
(* sources                                                                 *)
(***************************************************************************)
\* the command reads, but opening the store migrates it
listSources ==
    /\ pc = "idle"
    /\ exists
    /\ db' = migrateDatabase(db, legacySources(config))
    /\ UNCHANGED <<exists, config, pc, run, hist>>
    /\ UNCHANGED aux

Next ==
    \/ CreateStart \/ CreateCrawl \/ CreateEmbed \/ generateMcpServer
    \/ AddOpen \/ AddCrawl \/ AddEmbed \/ AddInsert \/ AddCommit
    \/ LegacyAddStart \/ LegacyAddCrawl \/ LegacyAddEmbed \/ LegacyAddWrite
    \/ UpdateOpen \/ UpdateDelete \/ UpdateCrawl \/ UpdateEmbed
    \/ UpdateInsert \/ UpdateMetadata \/ UpdateFinish
    \/ listSources

Spec == Init /\ [][Next]_vars

(***************************************************************************)
(* Properties.                                                             *)
(***************************************************************************)
Last == hist.last

Pre == hist.pre.db

\* an indexing command has just ended with success
Succeeded(op) == pc = "idle" /\ Last.op = op /\ Last.outcome = "ok"

SameSource(u, v) == normalizeUrl(u) = normalizeUrl(v)

\* the Source rows of store d registered for a URL that normalizes like url
RowsFor(d, url) == {i \in 1..Len(d.sources) : SameSource(d.sources[i].url, url)}

\* the chunk rows the last indexing command inserted
NewChunks == {c \in db.chunks : c.id > Pre.chunkSeq}

\* the chunk rows of store d that were crawled for a seed normalizing like url
ChunksCrawledFor(d, url) ==
    {c \in d.chunks : SameSource(hist.origin[c.id].seed, url)}

QueryVectors == {<<1>>, <<3>>}

\* C1: a non-forced add of a URL that normalizes like the URL of an existing
\* Source s leaves the number of Source rows unchanged and inserts the new
\* chunks under s's unchanged id.
C1_NonForcedAddKeepsSource ==
    (Succeeded("add") /\ ~Last.force) =>
        \A i \in RowsFor(Pre, Last.url) :
            /\ Len(db.sources) = Len(Pre.sources)
            /\ db.sources[i].id = Pre.sources[i].id
            /\ \A c \in NewChunks : c.source_id = Pre.sources[i].id

\* C2: a forced add of a URL that normalizes like the URL of an existing
\* Source adds exactly one Source row, and the new chunks are owned by the
\* new row, not by an existing one.
C2_ForcedAddNewSource ==
    (Succeeded("add") /\ Last.force /\ RowsFor(Pre, Last.url) # {}) =>
        /\ Len(db.sources) = Len(Pre.sources) + 1
        /\ \A c \in NewChunks :
               c.source_id \notin {Pre.sources[i].id : i \in 1..Len(Pre.sources)}

\* C3: once a later command has opened the store that create wrote, there is
\* exactly one Source row for the seed URL and every chunk that create
\* inserted has that row's id as its source_id.
C3_CreateChunksOwned ==
    (pc = "idle" /\ db.hasSources) =>
        /\ Cardinality(RowsFor(db, config.sourceUrl)) = 1
        /\ \A c \in db.chunks :
               hist.origin[c.id].op = "create" =>
                   \A i \in RowsFor(db, config.sourceUrl) :
                       c.source_id = db.sources[i].id

\* C4: after a successful non-forced add of a registered URL no chunk row of
\* an earlier indexing of that source is left, and the new chunks are under
\* the source's id.
C4_ReAddReplacesChunks ==
    (Succeeded("add") /\ ~Last.force /\ Last.isUpdate) =>
        /\ {c \in ChunksCrawledFor(db, Last.url) : c.id <= Pre.chunkSeq} = {}
        /\ \A c \in NewChunks : c.source_id = Last.sourceId

\* the row of store d with the given id, as a set
RowOf(d, id) == {d.sources[i] : i \in {j \in 1..Len(d.sources) : d.sources[j].id = id}}

\* every source of the last update was crawled and the documents are those
\* of its previous indexing
IdenticalUpdate ==
    /\ Succeeded("update")
    /\ Len(Last.done) = Len(Last.sourcesToUpdate)
    /\ \A k \in 1..Len(Last.done) :
           Last.done[k].documents = hist.pre.indexed[normalizeUrl(Last.done[k].url)]

\* C5: an update whose crawl output is identical to that of the previous
\* indexing leaves the number of chunk rows and the Source row's page_count
\* and chunk_count unchanged.
C5_UpdateIdempotent ==
    IdenticalUpdate =>
        /\ Cardinality(db.chunks) = Cardinality(Pre.chunks)
        /\ \A k \in 1..Len(Last.done) :
               \A old \in RowOf(Pre, Last.done[k].id), new \in RowOf(db, Last.done[k].id) :
                   /\ new.page_count = old.page_count
                   /\ new.chunk_count = old.chunk_count

\* the chunk row a hit of findSimilar is joined with, as a set
Joined(d, v) == {c \in d.chunks : c.id = v.rowid}

\* C6: after deleteChunksForSource(s) followed by rebuildVectorTable with no
\* insert for s in between, no hit of findSimilar belongs to s and every
\* result of findSimilar has its chunk row (its content is not NULL).
C6_RebuildConsistency ==
    \A s \in hist.purged :
        \A q \in QueryVectors, limit \in 1..MaxLimit :
            /\ \A h \in Hits(db, q, limit) :
                   \A i \in 1..Len(h) :
                       /\ Joined(db, h[i]) # {}
                       /\ \A c \in Joined(db, h[i]) : c.source_id # s
            /\ \A r \in findSimilar(db, q, limit) :
                   \A i \in 1..Len(r) : r[i].content # NULL

\* C6 witness: an update deleted indexed chunks of a source, did not insert
\* for it, and rebuilt; the index still answers queries.
C6_Witness ==
    /\ Succeeded("update")
    /\ \E s \in hist.purged :
           \E c \in Pre.chunks : c.source_id = s /\ c.id \in VecKeys(Pre)
    /\ \E q \in QueryVectors : \E h \in Hits(db, q, MaxLimit) : Len(h) > 0

\* the source the last command re-indexed alone
ReindexedOne ==
    \/ Succeeded("add") /\ ~Last.force /\ Last.isUpdate
    \/ Succeeded("update") /\ Len(Last.sourcesToUpdate) = 1 /\ Len(Last.done) = 1

ReindexedUrl ==
    IF Last.op = "add" THEN Last.url ELSE Last.sourcesToUpdate[1].url

\* C7: a command that re-indexes one source leaves every chunk of another
\* source in the chunks table and, when it was in the index before, in the
\* index after the rebuild.
C7_OtherSourcesKept ==
    ReindexedOne =>
        \A c \in Pre.chunks :
            ~SameSource(hist.origin[c.id].seed, ReindexedUrl) =>
                /\ c.id \in ChunkIds(db)
                /\ c.id \in VecKeys(Pre) => c.id \in VecKeys(db)

\* the source ids the last successful command indexed
IndexedIds ==
    IF Last.op = "add" THEN {Last.sourceId}
    ELSE {Last.done[k].id : k \in 1..Len(Last.done)}

\* C8: after a successful add or update of a source its row's chunk_count is
\* the number of chunk rows with its id and its page_count the number of
\* distinct page URLs among them.
C8_CountersMatchRows ==
    (Succeeded("add") \/ Succeeded("update")) =>
        \A id \in IndexedIds : \A row \in RowOf(db, id) :
            LET owned == {c \in db.chunks : c.source_id = id}
            IN  /\ row.chunk_count = Cardinality(owned)
                /\ row.page_count = Cardinality({c.url : c \in owned})

\* C9: no two Source rows have equal normalized URLs.
C9_OneSourcePerUrl ==
    \A i, j \in 1..Len(db.sources) :
        SameSource(db.sources[i].url, db.sources[j].url) => i = j

\* C10: the keys of the similarity index are ids of chunk rows whose
\* embedding_blob is not NULL.
C10_IndexSubsetOfEmbedded ==
    VecKeys(db) \subseteq {c.id : c \in {x \in db.chunks : x.embedding_blob # NULL}}

\* the last command ended where it awaited generateEmbeddings
EmbeddingFailed ==
    /\ pc = "idle"
    /\ Last.outcome # "ok"
    /\ Last.at \in {"create_embed", "add_embed", "update_embed"}

\* C11: every chunk row add or update inserted has its embedding bytes and
\* every chunk row create inserted has its entry in the index; a command
\* that ended because generateEmbeddings threw inserted no chunk row for the
\* source it was indexing.
C11_NoChunkWithoutEmbedding ==
    /\ \A c \in db.chunks :
           hist.origin[c.id].op \in {"add", "update"} => c.embedding_blob # NULL
    /\ Succeeded("create") => ChunkIds(db) \subseteq VecKeys(db)
    /\ EmbeddingFailed =>
           {c \in NewChunks :
               Last.op = "update" => c.source_id = Last.sourceId} = {}

\* C11 witness: an update indexed one source and ended at the embedding of
\* the next one.
C11_Witness ==
    /\ EmbeddingFailed
    /\ Last.op = "update"
    /\ NewChunks # {}

\* the ids of a sequence of Source rows
IdsOf(rows) == [k \in 1..Len(rows) |-> rows[k].id]

\* the sources an update started on and did not index: the crawl threw or
\* returned no document
Skipped == {id \in {Last.visited[k] : k \in 1..Len(Last.visited)} :
               id \notin {Last.done[k].id : k \in 1..Len(Last.done)}}

C13_OneRebuildPerUpdate ==
    /\ (pc # "idle" /\ run.op = "update") => hist.rebuilds = 0
    /\ Succeeded("update") => hist.rebuilds = 1

\* C13 witness: an update indexed two sources and rebuilt once.
C13_Witness ==
    /\ Succeeded("update")
    /\ Len(Last.done) = 2
    /\ hist.rebuilds = 1

\* C14: when an add or an update has ended, however it ended, no chunk row
\* it deleted is still a key of the index.
C14_RebuiltAfterDelete ==
    (pc = "idle" /\ Last.op \in {"add", "update"}) =>
        \A c \in Pre.chunks :
            c.id \notin ChunkIds(db) => c.id \notin VecKeys(db)

\* the lists of sources a config.json can hand to migrateDatabase
ConfigSourceLists == {<<>>, <<UrlA>>, <<UrlB, UrlAlias>>}

\* C23: migrating a store that no command is writing adds the sources table
\* (filled from the legacy source list) and the chunk columns only where
\* they are missing, leaves every chunk row (its id, content, url, title and
\* chunk_index, and the defaults of the added columns) and every index entry
\* as they are, and a second migration, with any legacy source list, changes
\* nothing; a command that opens a store of the older schema finds its chunk
\* rows and index entries as they were.
C23_MigrationAdditiveIdempotent ==
    /\ (exists /\ pc = "idle") =>
           \A first \in ConfigSourceLists \cup {legacySources(config)},
              second \in ConfigSourceLists \cup {legacySources(config)} :
               LET m == migrateDatabase(db, first)
               IN  /\ m.chunks = db.chunks
                   /\ m.vec = db.vec
                   /\ m.chunkSeq = db.chunkSeq
                   /\ m.hasSources /\ m.hasSourceId /\ m.hasBlob
                   /\ db.hasSources => m.sources = db.sources
                   /\ ~db.hasSources =>
                          /\ Len(m.sources) = Len(first)
                          /\ \A i \in 1..Len(first) : m.sources[i].url = first[i]
                   /\ (db.hasSources /\ db.hasSourceId /\ db.hasBlob) => m = db
                   /\ migrateDatabase(m, second) = m
    /\ (pc = "add_crawl" /\ ~run.isUpdate /\ ~Pre.hasSources) =>
           /\ db.chunks = Pre.chunks
           /\ db.vec = Pre.vec

\* add has opened a store of the older schema that holds chunks and index
\* entries, and has migrated it; its config lists a source
C23_Witness ==
    /\ pc = "add_crawl"
    /\ ~run.isUpdate
    /\ ~Pre.hasSources /\ ~Pre.hasSourceId /\ ~Pre.hasBlob
    /\ Pre.chunks # {}
    /\ Pre.vec # {}
    /\ legacySources(hist.pre.config) # <<>>
    /\ db.hasSources /\ db.hasSourceId /\ db.hasBlob

\* the positions of create after its test of the server directory
CreatePositions == {"create_crawl", "create_embed", "create_generate"}

\* a step that starts a create
CreateStarts ==
    /\ hist'.runs = hist.runs + 1
    /\ \/ run'.op = "create"
       \/ pc' = "idle" /\ hist'.last.op = "create"

\* C24: create on a server that exists ends at once with exit, before the
\* crawl, the embedding and any write, and leaves the store and config.json
\* as they were; a create that goes on runs on a server that does not exist.
C24_CreateOnExistingFails ==
    /\ [](pc \in CreatePositions =>
              (~exists /\ db = NoDatabase /\ config = NoConfig))
    /\ [][(CreateStarts /\ exists) =>
              /\ pc' = "idle"
              /\ run' = NoRun
              /\ hist'.last.outcome = "exit"
              /\ hist'.last.at = "idle"
              /\ hist'.rebuilds = 0
              /\ db' = db
              /\ config' = config
              /\ exists' = exists]_vars

\* create has just been refused on a server that holds chunks
C24_Witness ==
    /\ pc = "idle"
    /\ Last.op = "create"
    /\ Last.at = "idle"
    /\ exists
    /\ db.chunks # {}
    /\ db.vec # {}

\* VectorStore.getSources: SELECT DISTINCT url, title FROM chunks
VectorStore_getSources(d) == {[url |-> c.url, title |-> c.title] : c \in d.chunks}

\* the ids of the chunk rows that some findSimilar query of a reader returns
\* with their content
Findable(d) ==
    {c.id : c \in {x \in d.chunks :
        \E q \in QueryVectors, limit \in 1..MaxLimit :
            \E h \in Hits(d, q, limit) :
                \E i \in 1..Len(h) : h[i].rowid = x.id}}

\* update is between the delete of a source and the end of its inserts
Reindexing ==
    \/ pc \in {"update_crawl", "update_embed"}
    \/ pc = "update_insert" /\ run.todo # <<>>

\* the rows of the source being re-indexed: its old rows are deleted, so
\* these are the new ones
NewRowsOfCurrent == {c \in db.chunks : c.source_id = Head(run.queue).id}

\* C25: while update is between the delete of a source and the end of its
\* inserts, a reader of the store gets none of the source's new chunks from
\* findSimilar or from the sources read, and none of its old chunks.
C25_ReindexAtomicForReaders ==
    Reindexing =>
        /\ \A c \in NewRowsOfCurrent :
               /\ c.id \notin Findable(db)
               /\ [url |-> c.url, title |-> c.title]
                      \notin VectorStore_getSources(db)
        /\ \A c \in Pre.chunks :
               c.source_id = Head(run.queue).id => c.id \notin Findable(db)

\* C25, the part on the old chunks
C25_OldChunksHidden ==
    Reindexing =>
        \A c \in Pre.chunks :
            c.source_id = Head(run.queue).id => c.id \notin Findable(db)

\* the store the last indexing command found, once migrated
PreMigrated == migrateDatabase(Pre, legacySources(hist.pre.config))

\* the last command was an add of a URL with no Source row, and it failed in
\* its crawl or in its embedding
AddOfNewUrlFailed ==
    /\ pc = "idle"
    /\ Last.op = "add"
    /\ Last.outcome # "ok"
    /\ Last.at \in {"add_crawl", "add_embed"}
    /\ findSourceByUrl(PreMigrated, Last.url) = NULL

\* C26: after a failed add of a URL that was not registered, no Source row
\* for that URL exists and the number of Source rows is what it was.
C26_NoSourceRowAfterFailedAdd ==
    AddOfNewUrlFailed =>
        /\ findSourceByUrl(db, Last.url) = NULL
        /\ Len(db.sources) = Len(PreMigrated.sources)

\* C26 for the URLs that were registered: a failed add adds no Source row
C26_FailedAddOfKnownUrlAddsNoRow ==
    (/\ pc = "idle"
     /\ Last.op = "add"
     /\ Last.outcome # "ok"
     /\ Last.at \in {"add_crawl", "add_embed"}
     /\ findSourceByUrl(PreMigrated, Last.url) # NULL)
        => db.sources = PreMigrated.sources

\* the last command was a successful add of a URL that had no Source row
AddOfNewUrlSucceeded ==
    /\ Succeeded("add")
    /\ findSourceByUrl(PreMigrated, Last.url) = NULL

\* C27: a successful add of a URL that was not registered has called the
\* rebuild of the similarity index before it ended.
C27_NewAddCallsRebuild ==
    AddOfNewUrlSucceeded => hist.rebuilds >= 1

\* after such an add the index is what a rebuild would leave
C27_NewAddLeavesRebuiltIndex ==
    AddOfNewUrlSucceeded => db.vec = rebuildVectorTable(db).vec

\* a successful add that replaced the chunks of a registered URL has rebuilt
\* the index once
C27_ReplacingAddRebuilds ==
    (Succeeded("add") /\ Last.isUpdate) =>
        /\ hist.rebuilds = 1
        /\ db.vec = rebuildVectorTable(db).vec

\* the store `after` is the store `before` without the chunk rows of source
\* s and with everything else as it was, and the count returned is the
\* number of rows removed
DeleteEffect(before, after, s) ==
    /\ after.chunks = {c \in before.chunks : c.source_id # s}
    /\ DeletedCount(before, s)
           = Cardinality(before.chunks) - Cardinality(after.chunks)
    /\ after.vec = before.vec
    /\ after.sources = before.sources
    /\ after.chunkSeq = before.chunkSeq
    /\ after.hasSources = before.hasSources
    /\ after.hasSourceId = before.hasSourceId
    /\ after.hasBlob = before.hasBlob

\* C35: deleteChunksForSource(s), as update calls it for each source and as
\* add calls it for a registered URL after migrating the store, removes
\* exactly the chunk rows whose source_id is s and returns their number; the
\* index, every Source row with its counters, and the chunk rows of the
\* other sources are as before.
C35_DeleteChunksFrame ==
    [][/\ (pc = "update_loop" /\ pc' = "update_crawl") =>
              DeleteEffect(db, db', run'.sourceId)
       /\ (pc = "idle" /\ pc' = "add_crawl" /\ run'.isUpdate) =>
              DeleteEffect(migrateDatabase(db, legacySources(config)), db',
                           run'.sourceId)]_vars

\* update has just deleted the chunk rows of a source that had some, with
\* counters on its Source row; chunk rows of another source remain, and the
\* index still holds the keys of the deleted rows
C35_Witness ==
    /\ pc = "update_crawl"
    /\ \E c \in Pre.chunks : c.source_id = run.sourceId
    /\ \A c \in db.chunks : c.source_id # run.sourceId
    /\ \E c \in db.chunks : c.source_id # run.sourceId
    /\ \E i \in 1..Len(db.sources) :
           /\ db.sources[i].id = run.sourceId
           /\ db.sources[i].chunk_count > 0
    /\ \E c \in Pre.chunks : c.source_id = run.sourceId /\ c.id \in VecKeys(db)

\* the rows of chunks a step has inserted
InsertedRows == db'.chunks \ db.chunks

\* C36: every chunk id a command assigns is greater than every chunk id
\* assigned in the store before, so it is not the id of a row deleted
\* earlier and not a key vec_chunks still holds, and no insert of a chunk
\* with its embedding under its id is refused.
C36_ChunkIdsNeverReused ==
    /\ [][\A c \in InsertedRows :
              /\ c.id > Len(hist.origin)
              /\ c.id > db.chunkSeq
              /\ c.id \notin ChunkIds(db)
              /\ c.id \notin VecKeys(db)
              /\ \A o \in InsertedRows : o.id = c.id => o = c]_vars
    /\ [](exists => Len(hist.origin) = db.chunkSeq)
    /\ []~(Last.outcome = "crash" /\ Last.at \in {"add_insert", "update_insert"})

\* update is inserting the new chunks of a source whose rows it has deleted:
\* ids below the new ones are free, and vec_chunks still holds keys of the
\* deleted rows
C36_Witness ==
    /\ pc = "update_insert"
    /\ \E c \in db.chunks : c.id > Pre.chunkSeq /\ c.source_id = run.sourceId
    /\ \E k \in 1..Pre.chunkSeq : k \notin ChunkIds(db) /\ k \in ChunkIds(Pre)
    /\ \E k \in VecKeys(db) : k \notin ChunkIds(db)

\* add has ended in its first step: the exit of --continue with nothing
\* pending
ContinueRefused ==
    /\ pc = "idle"
    /\ pc' = "idle"
    /\ hist'.runs = hist.runs + 1
    /\ hist'.last.op = "add"

StorePageCount ==
    SumSeq([i \in 1..Len(db.sources) |-> db.sources[i].page_count])

StoreChunkCount ==
    SumSeq([i \in 1..Len(db.sources) |-> db.sources[i].chunk_count])

\* C39: after a successful add or update the pageCount and chunkCount of
\* config.json are the sums of the counts of all Source rows of the store.
C39_ConfigTotalsMatchStore ==
    (Succeeded("add") \/ Succeeded("update")) =>
        /\ config.pageCount = StorePageCount
        /\ config.chunkCount = StoreChunkCount

\* C39 for update alone
C39_UpdateTotalsMatchStore ==
    Succeeded("update") =>
        /\ config.pageCount = StorePageCount
        /\ config.chunkCount = StoreChunkCount

(***************************************************************************)
(* The commands on a server that create has generated.                     *)
(***************************************************************************)
\* the store, the config and the history as createServer leaves them when
\* it has crawled `documents` from url and generateMcpServer has returned;
\* hist.runs counts the commands started on the server from then on
ServerAfterCreate(url, documents) ==
    LET chunks == Embedded(chunkDocuments(documents))
        r == InsertPositional(NoDatabase, chunks, 0, 1)
        created == [NoRun EXCEPT !.op = "create", !.url = url,
                                 !.maxPages = DefaultMaxPages,
                                 !.documents = documents, !.chunks = chunks]
        none == [n \in NormUrls |-> <<>>]
        h0 == [runs |-> 0,
               pre |-> [db |-> NoDatabase, config |-> NoConfig, indexed |-> none],
               origin |-> <<>>, indexed |-> none,
               last |-> [op |-> created.op, url |-> created.url,
                         force |-> created.force, outcome |-> "ok",
                         sourceId |-> created.sourceId,
                         isUpdate |-> created.isUpdate,
                         sourcesToUpdate |-> created.sourcesToUpdate,
                         done |-> created.done, visited |-> created.visited,
                         at |-> "create_generate"],
               pending |-> {}, purged |-> {}, rebuilds |-> 0]
    IN  [db |-> r.db,
         config |-> [NoConfig EXCEPT !.sourceUrl = url,
                                     !.pageCount = PageCountOf(chunks),
                                     !.chunkCount = Len(chunks)],
         hist |-> Indexed(Assigned(InsertedFor(h0, 0), r.db, "create", url),
                          url, documents)]

InitServer ==
    /\ exists = TRUE
    /\ \E url \in CreateUrls :
       \E documents \in CrawlResults(url, DefaultMaxPages) \ {<<>>} :
          LET server == ServerAfterCreate(url, documents)
          IN  /\ db = server.db
              /\ config = server.config
              /\ hist = server.hist
    /\ pc = "idle"
    /\ run = NoRun
    /\ emb = NoEmbedding
    /\ chk = NoChunking
    /\ nrm = NoNormalizing
    /\ crw = NoCrawling

\* create is refused on the server, so of its steps only CreateStart is taken
NextServer ==
    \/ CreateStart
    \/ AddOpen \/ AddCrawl \/ AddEmbed \/ AddInsert \/ AddCommit
    \/ LegacyAddStart \/ LegacyAddCrawl \/ LegacyAddEmbed \/ LegacyAddWrite
    \/ UpdateOpen \/ UpdateDelete \/ UpdateCrawl \/ UpdateEmbed
    \/ UpdateInsert \/ UpdateMetadata \/ UpdateFinish
    \/ listSources

SpecServer == InitServer /\ [][NextServer]_vars

\* the entries of vec_chunks a step has written
InsertedKeys == db'.vec \ db.vec

\* C40: on every step of create, add, the older add and update that inserts
\* chunk rows, each embedding is written to vec_chunks under the id of the
\* chunk row that holds its content: the keys written are the ids of the
\* rows inserted, and the entry of a key is the embedding of the text of
\* the row of that id.
C40_IndexKeyIsChunkId ==
    [][InsertedRows # {} =>
          /\ {v.rowid : v \in InsertedKeys} = {c.id : c \in InsertedRows}
          /\ \A v \in InsertedKeys : \A c \in InsertedRows :
                 c.id = v.rowid =>
                     v.embedding = Float32Bytes(ProviderVector(c.content))]_vars

\* on the steps of add and update, which insert through
\* insertChunkWithEmbedding, the key written is the id of the row inserted
C40_KeyIsIdOutsideOlderAdd ==
    [][(InsertedRows # {} /\ run.op # "legacy_add") =>
          {v.rowid : v \in InsertedKeys} = {c.id : c \in InsertedRows}]_vars

(***************************************************************************)
(* generateEmbeddings taken alone.  The call is given n chunks; the        *)
(* provider answers an attempt with the embeddings, with a rate-limit      *)
(* error (status 429, with or without a retry-after-ms header) or with     *)
(* another error.  A retry-after-ms header is a string of decimal digits,  *)
(* known by the number parseInt reads from it; such a string is never      *)
(* empty, so the header counts as present whatever its number.             *)
(*                                                                         *)
(* emb.pc        "batch" the head of the for loop, "attempt" the await on  *)
(*               the provider, "sleep" the await on sleep(retryAfterMs),   *)
(*               "pause" the await on sleep(500), "done" returned,         *)
(*               "thrown" rejected                                         *)
(* emb.embedded  the chunks (1..n) whose embedding is set                  *)
(* emb.error     the error the call rejected with                          *)
(* emb.calls, okCalls, limited, batchCalls, texts, waits, hints, last      *)
(*               history: provider attempts in all, answered with          *)
(*               embeddings, answered with a rate-limit error, attempts    *)
(*               for the current batch, the number of texts of the last    *)
(*               request, the waits and the headers of the rate-limit      *)
(*               answers of the current batch, the last answer             *)
(***************************************************************************)
MaxChunks == 51      \* chunks given to one call of generateEmbeddings

BATCH_SIZE == 25
MAX_RETRIES == 5
BASE_DELAY_MS == 1000

\* the retry-after-ms headers of a rate-limit answer: none, or one number
RetryAfterHeaders == {<<>>, <<0>>, <<3000>>}

\* what the provider answers an attempt with
ProviderAnswers ==
    {[kind |-> "ok", status |-> 200, headers |-> <<>>]}
    \cup {[kind |-> "error", status |-> 429, headers |-> h] :
              h \in RetryAfterHeaders}
    \cup {[kind |-> "error", status |-> st, headers |-> <<>>] : st \in {401, 500}}

NoAnswer == [kind |-> "none", status |-> 0, headers |-> <<>>]

RateLimitExceeded ==
    [kind |-> "error", status |-> 0, headers |-> <<>>,
     message |-> "Rate limit exceeded after 5 retries"]

Max(a, b) == IF a > b THEN a ELSE b

IsAnyError(error) == error.kind = "error"

\* error instanceof Error && "status" in error && error.status === 429
isRateLimit(error) == error.kind = "error" /\ error.status = 429

\* BASE_DELAY_MS * Math.pow(2, retries - 1)
Backoff(retries) == BASE_DELAY_MS * 2 ^ (retries - 1)

RetryWaitHintOnly(retries, headers) ==
    IF headers # <<>> THEN headers[1] + 100 ELSE Backoff(retries)

\* retryAfterMs, for the retries-th rate-limit answer of a batch
RetryWait(retries, headers) ==
    IF headers # <<>>
    THEN Max(headers[1] + 100, Backoff(retries))
    ELSE Backoff(retries)

RetryAllowedOnceMore(retries) == retries <= MAX_RETRIES

\* if (retries < MAX_RETRIES) sleep, else throw
RetryAllowed(retries) == retries < MAX_RETRIES

EmbeddingCall(n) ==
    [pc |-> "batch", n |-> n, i |-> 0, retries |-> 0, embedded |-> {},
     error |-> NoAnswer, calls |-> 0, okCalls |-> 0, limited |-> 0,
     batchCalls |-> 0, texts |-> 0, waits |-> <<>>, hints |-> <<>>,
     last |-> NoAnswer]

\* chunks.slice(i), as indices 1..n
BatchToEnd(i, n) == (i + 1)..n

\* chunks.slice(i, i + BATCH_SIZE), as indices 1..n
Batch(i, n) == (i + 1)..Min(i + BATCH_SIZE, n)

\* the while loop is left: sleep(500) when another batch follows, then i += BATCH_SIZE
AfterBatch(e) ==
    IF e.i + BATCH_SIZE < e.n
    THEN [e EXCEPT !.pc = "pause"]
    ELSE [e EXCEPT !.pc = "batch", !.i = @ + BATCH_SIZE]

cmd == <<exists, db, config, pc, run, hist>>

InitEmbed ==
    /\ exists = FALSE
    /\ db = NoDatabase
    /\ config = NoConfig
    /\ pc = "idle"
    /\ run = NoRun
    /\ hist = [runs |-> 0, pre |-> NoPre, origin |-> <<>>,
               indexed |-> [n \in NormUrls |-> <<>>], last |-> NoLast,
               pending |-> {}, purged |-> {}, rebuilds |-> 0]
    /\ emb \in {EmbeddingCall(n) : n \in 0..MaxChunks}
    /\ chk = NoChunking
    /\ nrm = NoNormalizing
    /\ crw = NoCrawling

\* the head of the for loop and the start of the while loop
EmbedBatch ==
    /\ emb.pc = "batch"
    /\ IF emb.i < emb.n
       THEN emb' = [emb EXCEPT !.pc = "attempt", !.retries = 0,
                               !.batchCalls = 0, !.waits = <<>>,
                               !.hints = <<>>]
       ELSE emb' = [emb EXCEPT !.pc = "done"]
    /\ UNCHANGED <<cmd, chk, nrm, crw>>

\* one pass of the while loop, from the request to the next await
EmbedAttempt ==
    /\ emb.pc = "attempt"
    /\ \E answer \in ProviderAnswers :
        LET e0 == [emb EXCEPT !.calls = @ + 1, !.batchCalls = @ + 1,
                              !.texts = Cardinality(Batch(emb.i, emb.n)),
                              !.last = answer]
            retries == emb.retries + 1
        IN  IF answer.kind = "ok"
            THEN emb' = AfterBatch([e0 EXCEPT
                     !.embedded = @ \cup Batch(emb.i, emb.n),
                     !.okCalls = @ + 1])
            ELSE IF isRateLimit(answer)
            THEN IF RetryAllowed(retries)
                 THEN emb' = [e0 EXCEPT
                          !.retries = retries, !.limited = @ + 1,
                          !.waits = Append(@, RetryWait(retries, answer.headers)),
                          !.hints = Append(@, answer.headers),
                          !.pc = "sleep"]
                 ELSE emb' = [e0 EXCEPT
                          !.retries = retries, !.limited = @ + 1,
                          !.error = RateLimitExceeded, !.pc = "thrown"]
            ELSE emb' = [e0 EXCEPT !.error = answer, !.pc = "thrown"]
    /\ UNCHANGED <<cmd, chk, nrm, crw>>

\* sleep(retryAfterMs) is over: the while loop goes round
EmbedSleep ==
    /\ emb.pc = "sleep"
    /\ emb' = IF emb.retries < MAX_RETRIES
               THEN [emb EXCEPT !.pc = "attempt"]
               ELSE AfterBatch(emb)
    /\ UNCHANGED <<cmd, chk, nrm, crw>>

\* sleep(500) between two batches is over
EmbedPause ==
    /\ emb.pc = "pause"
    /\ emb' = [emb EXCEPT !.pc = "batch", !.i = @ + BATCH_SIZE]
    /\ UNCHANGED <<cmd, chk, nrm, crw>>

NextEmbed == EmbedBatch \/ EmbedAttempt \/ EmbedSleep \/ EmbedPause

SpecEmbed == InitEmbed /\ [][NextEmbed]_vars

(***************************************************************************)
(* Properties of generateEmbeddings.                                       *)
(***************************************************************************)
\* C15: a batch is never attempted more than MAX_RETRIES times; the fifth
\* rate-limit answer to a batch rejects the call with the rate-limit-exceeded
\* error, and a call rejected with it has made exactly MAX_RETRIES attempts
\* for the batch, all answered with a rate-limit error, and has embedded no
\* chunk of this batch or of a later one.
C15_RateLimitBudget ==
    /\ emb.batchCalls <= MAX_RETRIES
    /\ emb.retries = MAX_RETRIES =>
           emb.pc = "thrown" /\ emb.error = RateLimitExceeded
    /\ (emb.pc = "thrown" /\ emb.error = RateLimitExceeded) =>
           /\ emb.batchCalls = MAX_RETRIES
           /\ emb.retries = MAX_RETRIES
           /\ emb.embedded = 1..emb.i

\* C15 witness: the second batch was answered five times with a rate-limit
\* error.
C15_Witness ==
    /\ emb.pc = "thrown"
    /\ emb.error = RateLimitExceeded
    /\ emb.i = BATCH_SIZE
    /\ emb.n > 2 * BATCH_SIZE

\* C16: within the retries of one batch every wait is at least as long as
\* the wait before it.
C16_WaitsNonDecreasing ==
    \A k \in 2..Len(emb.waits) : emb.waits[k] >= emb.waits[k - 1]

\* C17: the wait after the r-th rate-limit answer of a batch is
\* max(hint + 100, BASE_DELAY_MS * 2^(r-1)) when the answer carries a
\* retry-after-ms header and BASE_DELAY_MS * 2^(r-1) otherwise, and is never
\* less than BASE_DELAY_MS * 2^(r-1).
C17_WaitIsPaddedHintOrBackoff ==
    \A r \in 1..Len(emb.waits) :
        /\ emb.waits[r] =
               IF emb.hints[r] # <<>>
               THEN Max(emb.hints[r][1] + 100, BASE_DELAY_MS * 2 ^ (r - 1))
               ELSE BASE_DELAY_MS * 2 ^ (r - 1)
        /\ emb.waits[r] >= BASE_DELAY_MS * 2 ^ (r - 1)

\* C17 as the specification states it: the wait is max(hint, backoff).
C17_WaitIsHintOrBackoff ==
    \A r \in 1..Len(emb.waits) :
        emb.waits[r] =
            IF emb.hints[r] # <<>>
            THEN Max(emb.hints[r][1], BASE_DELAY_MS * 2 ^ (r - 1))
            ELSE BASE_DELAY_MS * 2 ^ (r - 1)

\* C17 witness: four waits in one batch, one after a header above the
\* backoff, one after a header below it and one after no header.
C17_Witness ==
    /\ emb.pc = "sleep"
    /\ Len(emb.waits) = MAX_RETRIES - 1
    /\ \E r \in 1..Len(emb.waits) :
           emb.hints[r] # <<>> /\ emb.hints[r][1] + 100 > BASE_DELAY_MS * 2 ^ (r - 1)
    /\ \E r \in 1..Len(emb.waits) :
           emb.hints[r] # <<>> /\ emb.hints[r][1] + 100 < BASE_DELAY_MS * 2 ^ (r - 1)
    /\ \E r \in 1..Len(emb.waits) : emb.hints[r] = <<>>

\* ceil(n / BATCH_SIZE)
Batches(n) == (n + BATCH_SIZE - 1) \div BATCH_SIZE

\* C18: a request never holds more than BATCH_SIZE texts; a call that has
\* returned was answered with embeddings exactly ceil(n / BATCH_SIZE) times,
\* made one more attempt for each rate-limit answer, and left every one of
\* the n chunks with its embedding.
C18_BatchingCorrect ==
    /\ emb.texts <= BATCH_SIZE
    /\ emb.pc = "done" =>
           /\ emb.okCalls = Batches(emb.n)
           /\ emb.calls = Batches(emb.n) + emb.limited
           /\ emb.embedded = 1..emb.n

\* C18 as the specification states it: a call that has returned made exactly
\* ceil(n / BATCH_SIZE) attempts.
C18_ExactlyCeilCalls ==
    emb.pc = "done" => emb.calls = Batches(emb.n)

\* C18 witness: a call with a full batch, a partial batch and a retry has
\* returned.
C18_Witness ==
    /\ emb.pc = "done"
    /\ emb.n > BATCH_SIZE
    /\ emb.n % BATCH_SIZE # 0
    /\ emb.limited > 0

\* C19: once the provider has answered an attempt with an error whose status
\* is not 429, the call is rejected with that very error; the failing
\* attempt is the last one, no wait follows it, and no chunk of the failing
\* batch or of a later one is embedded.
C19_OtherErrorsPropagate ==
    (emb.last.kind = "error" /\ emb.last.status # 429) =>
        /\ emb.pc = "thrown"
        /\ emb.error = emb.last
        /\ emb.batchCalls = emb.retries + 1
        /\ Len(emb.waits) = emb.retries
        /\ emb.embedded = 1..emb.i

\* C19 witness: the second batch, retried once after a rate-limit answer,
\* was answered with status 500.
C19_Witness ==
    /\ emb.pc = "thrown"
    /\ emb.last.status = 500
    /\ emb.error.status = 500
    /\ emb.retries = 1
    /\ emb.i = BATCH_SIZE

(***************************************************************************)
(* chunkDocuments taken alone: the call is given a list of documents and   *)
(* returns its chunks.  The texts are chosen around the limits of the      *)
(* code: the 50 characters a window must exceed, the window of 2000        *)
(* characters, its half, and the overlap of 200.                           *)
(***************************************************************************)
MaxDocs == 2         \* documents given to one call of chunkDocuments

ChunkerLengths == {0, 1, 49, 50, 51, 100, 2000, 2001, 2051, 3000, 3851, 5000}

\* a run of spaces on the positions from..to
Spaces(from, to) == [p \in from..to |-> " "]

ChunkerMarks ==
    { <<>>,
      Spaces(1800, 2499) @@ Spaces(2550, 3799),
      Spaces(1790, 2000),
      (1000 :> "."),
      (1001 :> "."),
      (2000 :> "."),
      (1200 :> "." @@ 1500 :> "\n"),
      (0 :> " " @@ 1 :> "\n"),
      (1800 :> " " @@ 1801 :> " "),
      (1950 :> "." @@ 1951 :> " " @@ 1952 :> " "),
      (3700 :> "\n" @@ 3750 :> ".") }

\* the marks of m that lie inside a text of n characters, and a space at its
\* end when `trailing`
MarksWithin(m, n, trailing) ==
    LET inside == {p \in DOMAIN m : p < n}
        last == IF trailing /\ n > 0 THEN {n - 1} ELSE {}
    IN  [p \in inside \cup last |-> IF p \in last THEN " " ELSE m[p]]

ChunkerTexts ==
    {[len |-> n, marks |-> MarksWithin(m, n, trailing)] :
        n \in ChunkerLengths, m \in ChunkerMarks, trailing \in BOOLEAN}

ChunkerDoc(text, k) == [url |-> Page(UrlA, k), title |-> k, content |-> text]

\* the documents of the lists of more than one document
ListDocs == {ChunkerDoc(Letters(30), "1"), ChunkerDoc(Letters(3000), "2"),
             ChunkerDoc([len |-> 3851, marks |-> (1950 :> ".")], "3"),
             ChunkerDoc([len |-> 5000,
                         marks |-> Spaces(1800, 2499) @@ Spaces(2550, 3799)],
                        "4")}

RECURSIVE DocLists(_)
\* the lists of k documents of ListDocs
DocLists(k) ==
    IF k = 0 THEN {<<>>}
    ELSE {Append(l, d) : l \in DocLists(k - 1), d \in ListDocs}

ChunkerInputs ==
    {<<ChunkerDoc(t, "1")>> : t \in ChunkerTexts}
    \cup UNION {DocLists(k) : k \in {0} \cup 2..MaxDocs}

\* chk.pc         "for" the head of the loop over the documents, "while"
\*                the head of the sliding loop, "returned"
\* chk.done       documents the for loop has finished
\* chk.start, chk.chunkIndex   the locals of the sliding loop
\* chk.windows    history: the windows of the sliding loop of the current
\*                document, each with its start, its tentative end, the
\*                boundary found, the length of the text, its end, the
\*                length of the trimmed slice and whether it was pushed
ChunkerCall(documents) ==
    [pc |-> "for", documents |-> documents, chunks |-> <<>>, done |-> 0,
     start |-> 0, chunkIndex |-> 0, windows |-> <<>>]

InitChunk ==
    /\ exists = FALSE
    /\ db = NoDatabase
    /\ config = NoConfig
    /\ pc = "idle"
    /\ run = NoRun
    /\ hist = [runs |-> 0, pre |-> NoPre, origin |-> <<>>,
               indexed |-> [n \in NormUrls |-> <<>>], last |-> NoLast,
               pending |-> {}, purged |-> {}, rebuilds |-> 0]
    /\ emb = NoEmbedding
    /\ chk \in {ChunkerCall(l) : l \in ChunkerInputs}
    /\ nrm = NoNormalizing
    /\ crw = NoCrawling

NewChunk(doc, chunkText, chunkIndex) ==
    [content    |-> chunkText,
     url        |-> doc.url,
     title      |-> doc.title,
     chunkIndex |-> chunkIndex,
     embedding  |-> NULL]

\* the next document: a short one is pushed whole, a long one enters the
\* sliding loop
ChunkDocument ==
    /\ chk.pc = "for"
    /\ chk.done < Len(chk.documents)
    /\ LET doc == chk.documents[chk.done + 1]
       IN  IF doc.content.len <= CHUNK_SIZE * 4
           THEN chk' = [chk EXCEPT
                           !.chunks = Append(@,
                               NewChunk(doc, [from |-> 0, to |-> doc.content.len], 0)),
                           !.done = @ + 1]
           ELSE chk' = [chk EXCEPT !.pc = "while", !.start = 0,
                                   !.chunkIndex = 0, !.windows = <<>>]
    /\ UNCHANGED <<cmd, emb, nrm, crw>>

\* the sliding loop advancing by a fixed step, whatever the end of the window
ChunkWindowFixedAdvance ==
    /\ chk.pc = "while"
    /\ \E doc \in {chk.documents[chk.done + 1]} :
       \E end \in {WindowEnd(doc.content, chk.start)} :
       \E chunkText \in {SliceTrim(doc.content, chk.start, end)} :
       LET text == doc.content
           emit == chunkText.to - chunkText.from > 50
           window == [start     |-> chk.start,
                      tentative |-> chk.start + CHUNK_SIZE * 4,
                      boundary  |-> Boundary(text, chk.start + CHUNK_SIZE * 4),
                      len       |-> text.len,
                      end       |-> end,
                      trimmed   |-> chunkText.to - chunkText.from,
                      emitted   |-> emit]
       IN  IF chk.start < text.len
           THEN chk' = [chk EXCEPT
                           !.chunks = IF emit
                                      THEN Append(@, NewChunk(doc, chunkText,
                                                              chk.chunkIndex))
                                      ELSE @,
                           !.chunkIndex = IF emit THEN @ + 1 ELSE @,
                           !.windows = Append(@, window),
                           !.start = chk.start + CHUNK_SIZE * 4 - CHUNK_OVERLAP * 4]
           ELSE chk' = [chk EXCEPT !.pc = "for", !.done = @ + 1]
    /\ UNCHANGED <<cmd, emb, nrm, crw>>

\* the sliding loop counting every window, pushed or discarded
ChunkWindowCountingDiscarded ==
    /\ chk.pc = "while"
    /\ \E doc \in {chk.documents[chk.done + 1]} :
       \E end \in {WindowEnd(doc.content, chk.start)} :
       \E chunkText \in {SliceTrim(doc.content, chk.start, end)} :
       LET text == doc.content
           emit == chunkText.to - chunkText.from > 50
           window == [start     |-> chk.start,
                      tentative |-> chk.start + CHUNK_SIZE * 4,
                      boundary  |-> Boundary(text, chk.start + CHUNK_SIZE * 4),
                      len       |-> text.len,
                      end       |-> end,
                      trimmed   |-> chunkText.to - chunkText.from,
                      emitted   |-> emit]
       IN  IF chk.start < text.len
           THEN chk' = [chk EXCEPT
                           !.chunks = IF emit
                                      THEN Append(@, NewChunk(doc, chunkText,
                                                              chk.chunkIndex))
                                      ELSE @,
                           !.chunkIndex = @ + 1,
                           !.windows = Append(@, window),
                           !.start = end - CHUNK_OVERLAP * 4]
           ELSE chk' = [chk EXCEPT !.pc = "for", !.done = @ + 1]
    /\ UNCHANGED <<cmd, emb, nrm, crw>>

\* one test of the while loop and, when it passes, one iteration
ChunkWindow ==
    /\ chk.pc = "while"
    /\ \E doc \in {chk.documents[chk.done + 1]} :
       \E end \in {WindowEnd(doc.content, chk.start)} :
       \E chunkText \in {SliceTrim(doc.content, chk.start, end)} :
       LET text == doc.content
           emit == chunkText.to - chunkText.from > 50
           window == [start     |-> chk.start,
                      tentative |-> chk.start + CHUNK_SIZE * 4,
                      boundary  |-> Boundary(text, chk.start + CHUNK_SIZE * 4),
                      len       |-> text.len,
                      end       |-> end,
                      trimmed   |-> chunkText.to - chunkText.from,
                      emitted   |-> emit]
       IN  IF chk.start < text.len
           THEN chk' = [chk EXCEPT
                           !.chunks = IF emit
                                      THEN Append(@, NewChunk(doc, chunkText,
                                                              chk.chunkIndex))
                                      ELSE @,
                           !.chunkIndex = IF emit THEN @ + 1 ELSE @,
                           !.windows = Append(@, window),
                           !.start = end - CHUNK_OVERLAP * 4]
           ELSE chk' = [chk EXCEPT !.pc = "for", !.done = @ + 1]
    /\ UNCHANGED <<cmd, emb, nrm, crw>>

\* the call returns
ChunkReturn ==
    /\ chk.pc = "for"
    /\ chk.done = Len(chk.documents)
    /\ chk' = [chk EXCEPT !.pc = "returned"]
    /\ UNCHANGED <<cmd, emb, nrm, crw>>

NextChunk == ChunkDocument \/ ChunkWindow \/ ChunkReturn

SpecChunk == InitChunk /\ [][NextChunk]_vars

\* the call runs on: no step of it waits on anything
FairSpecChunk == SpecChunk /\ WF_vars(NextChunk)

(***************************************************************************)
(* Properties of chunkDocuments.                                           *)
(***************************************************************************)
\* the loops of the call return what chunkDocuments, used by the commands,
\* gives for the documents
ChunkerAgrees ==
    chk.pc = "returned" => chk.chunks = chunkDocuments(chk.documents)

\* the number of characters of a chunk
ChunkLength(c) == c.content.to - c.content.from

\* C20: every chunk chunkDocuments returns has at least 50 characters and at
\* most the window size plus one.
C20_ChunkSizeBound ==
    chk.pc = "returned" =>
        \A k \in 1..Len(chk.chunks) :
            /\ ChunkLength(chk.chunks[k]) >= 50
            /\ ChunkLength(chk.chunks[k]) <= CHUNK_SIZE * 4 + 1

\* the chunks of the i-th document among the chunks the call returned
ChunksOfDocument(i) ==
    LET before == Len(chunkDocuments(SubSeq(chk.documents, 1, i - 1)))
        upto == Len(chunkDocuments(SubSeq(chk.documents, 1, i)))
    IN  SubSeq(chk.chunks, before + 1, upto)

\* the documents of the call that are longer than the window
LongDocuments ==
    {i \in 1..Len(chk.documents) :
        chk.documents[i].content.len > CHUNK_SIZE * 4}

\* C21: the chunks of a document longer than the window cover its text with
\* no uncovered stretch longer than the overlap, between one chunk and the
\* next and after the last chunk up to the end of the text.
C21_ContiguousCoverage ==
    chk.pc = "returned" =>
        \A i \in LongDocuments :
            LET cs == ChunksOfDocument(i)
                text == chk.documents[i].content
            IN  /\ cs # <<>>
                /\ \A k \in 1..(Len(cs) - 1) :
                       cs[k + 1].content.from - cs[k].content.to
                           <= CHUNK_OVERLAP * 4
                /\ text.len - cs[Len(cs)].content.to <= CHUNK_OVERLAP * 4

\* the positions of the text of document i that hold a letter and lie in no
\* chunk of the document
LostLetters(i) ==
    LET cs == ChunksOfDocument(i)
        text == chk.documents[i].content
    IN  {p \in 0..(text.len - 1) :
            /\ ~IsSpace(CharAt(text, p))
            /\ \A k \in 1..Len(cs) :
                   p < cs[k].content.from \/ p >= cs[k].content.to}

\* C21, the least the coverage asks: no letter of a long document is outside
\* every chunk of the document
C21_NoLetterLost ==
    chk.pc = "returned" => \A i \in LongDocuments : LostLetters(i) = {}

\* C21 for the texts that hold no two white-space characters in a row
NoSpaceRun(text) ==
    \A p \in DOMAIN text.marks :
        IsSpace(text.marks[p]) =>
            ~(p + 1 \in DOMAIN text.marks /\ IsSpace(text.marks[p + 1]))

C21_CoverageWithoutSpaceRuns ==
    chk.pc = "returned" =>
        \A i \in LongDocuments :
            NoSpaceRun(chk.documents[i].content) =>
                LET cs == ChunksOfDocument(i)
                    text == chk.documents[i].content
                IN  /\ cs # <<>>
                    /\ \A k \in 1..(Len(cs) - 1) :
                           cs[k + 1].content.from <= cs[k].content.to
                    /\ text.len - cs[Len(cs)].content.to <= 1

\* the window ended at the hard cut, or just after a boundary
HardCut(w) == w.end = w.tentative

AtBoundary(w) == w.end = w.boundary + 1 /\ w.end # w.tentative

\* C28: chunkDocuments returns on every list of documents, and every
\* iteration of the sliding loop that is followed by another has moved the
\* start forward, after a hard cut and after a cut at a boundary.
C28_SlidingLoopTerminates ==
    /\ [][(chk.pc = "while" /\ chk'.pc = "while") =>
              chk'.start > chk.start]_vars
    /\ <>(chk.pc = "returned")

\* the call has returned and the sliding loop of its last document has ended
\* one window at the hard cut and another at a boundary
C28_Witness ==
    /\ chk.pc = "returned"
    /\ \E i \in 1..Len(chk.windows) :
           HardCut(chk.windows[i]) /\ chk.windows[i].tentative < chk.windows[i].len
    /\ \E i \in 1..Len(chk.windows) : AtBoundary(chk.windows[i])

\* C29 as amended: each window of the sliding loop starts at the end of
\* the window before it minus the overlap; that is the start of the
\* window before it plus the window size minus the overlap when that window
\* ended at the hard cut, and less when it was cut at a boundary before the
\* hard cut.
C29_StartIsPreviousEndMinusOverlap ==
    \A k \in 2..Len(chk.windows) :
        LET w == chk.windows[k]
            prev == chk.windows[k - 1]
            step == CHUNK_SIZE * 4 - CHUNK_OVERLAP * 4
        IN  /\ w.start = prev.end - CHUNK_OVERLAP * 4
            /\ HardCut(prev) => w.start = prev.start + step
            /\ prev.end < prev.tentative => w.start < prev.start + step
            /\ prev.end > prev.tentative => w.start = prev.start + step + 1

\* C29: each window of the sliding loop starts at the start of the window
\* before it plus the window size minus the overlap.
C29_StartAdvancesByFixedStep ==
    \A k \in 2..Len(chk.windows) :
        chk.windows[k].start
            = chk.windows[k - 1].start + CHUNK_SIZE * 4 - CHUNK_OVERLAP * 4

\* a window follows one that was cut at a boundary before the hard cut, and
\* another follows one that ended at the hard cut
C29_Witness ==
    /\ \E k \in 2..Len(chk.windows) :
           /\ AtBoundary(chk.windows[k - 1])
           /\ chk.windows[k - 1].end < chk.windows[k - 1].tentative
    /\ \E k \in 2..Len(chk.windows) : HardCut(chk.windows[k - 1])

\* C30: a window whose tentative end lies before the end of the text ends
\* just after the boundary found when the boundary is at or after the
\* midpoint of the window, and at the hard cut otherwise.
C30_BoundaryAcceptedFromMidpoint ==
    \A k \in 1..Len(chk.windows) :
        LET w == chk.windows[k]
        IN  w.tentative < w.len =>
                IF 2 * w.boundary >= 2 * w.start + CHUNK_SIZE * 4
                THEN w.end = w.boundary + 1
                ELSE w.end = w.tentative

\* C30 with the boundary accepted after the midpoint only
C30_BoundaryAcceptedAfterMidpoint ==
    \A k \in 1..Len(chk.windows) :
        LET w == chk.windows[k]
        IN  IF w.tentative < w.len
               /\ 2 * w.boundary > 2 * w.start + CHUNK_SIZE * 4
            THEN w.end = w.boundary + 1
            ELSE w.end = w.tentative

\* C31: a window of the sliding loop is discarded exactly when its trimmed
\* slice has fewer than 50 characters: a trimmed slice of exactly 50
\* characters is pushed as a chunk.
C31_DiscardedBelowFifty ==
    \A k \in 1..Len(chk.windows) :
        chk.windows[k].emitted <=> chk.windows[k].trimmed >= 50

\* C31 with the limit of the code: a window is pushed exactly when its
\* trimmed slice has more than 50 characters, and the chunks of a long
\* document are the pushed windows
C31_DiscardedUpToFifty ==
    /\ \A k \in 1..Len(chk.windows) :
           chk.windows[k].emitted <=> chk.windows[k].trimmed > 50
    /\ chk.pc = "while" =>
           chk.chunkIndex
               = Cardinality({k \in 1..Len(chk.windows) : chk.windows[k].emitted})

\* windows whose trimmed slices have 50 and 51 characters
C31_WitnessFifty ==
    /\ \E k \in 1..Len(chk.windows) : chk.windows[k].trimmed = 50
    /\ \E k \in 1..Len(chk.windows) : chk.windows[k].trimmed = 51

\* C32: no chunk chunkDocuments returns is longer than the window, also
\* when the window was cut at a period or newline found at the tentative
\* end itself.
C32_ChunkAtMostWindow ==
    /\ chk.pc = "returned" =>
           \A k \in 1..Len(chk.chunks) :
               ChunkLength(chk.chunks[k]) <= CHUNK_SIZE * 4
    /\ \A k \in 1..Len(chk.windows) :
           chk.windows[k].emitted => chk.windows[k].trimmed <= CHUNK_SIZE * 4

\* C32 for the windows that are not cut at the tentative end itself: their
\* trimmed slice is no longer than the window, and a window cut at a
\* boundary found at the tentative end is one character longer at most
C32_ChunkAtMostWindowUnlessCutAtEnd ==
    \A k \in 1..Len(chk.windows) :
        LET w == chk.windows[k]
        IN  /\ w.trimmed <= CHUNK_SIZE * 4 + 1
            /\ w.trimmed > CHUNK_SIZE * 4 =>
                   /\ w.boundary = w.tentative
                   /\ w.end = w.tentative + 1

\* C33: the chunks of each document carry the indexes 0, 1, ... in the
\* order they were pushed, with no index skipped for a discarded window, and
\* the indexes start again at 0 with the next document; a document no
\* longer than the window gives exactly one chunk, of index 0.
C33_ChunkIndexSequential ==
    chk.pc = "returned" =>
        \A i \in 1..Len(chk.documents) :
            LET cs == ChunksOfDocument(i)
                doc == chk.documents[i]
            IN  /\ \A k \in 1..Len(cs) :
                       /\ cs[k].chunkIndex = k - 1
                       /\ cs[k].url = doc.url
                       /\ cs[k].title = doc.title
                /\ doc.content.len <= CHUNK_SIZE * 4 =>
                       /\ Len(cs) = 1
                       /\ cs[1].content = [from |-> 0, to |-> doc.content.len]

\* a call on two documents has returned; the first gave chunks and the
\* sliding loop of the second discarded a window and pushed a later one,
\* which is the last chunk returned and has index 1
C33_Witness ==
    /\ chk.pc = "returned"
    /\ Len(chk.documents) = 2
    /\ ChunksOfDocument(1) # <<>>
    /\ \E i, j \in 1..Len(chk.windows) :
           /\ i < j
           /\ chk.windows[1].emitted
           /\ ~chk.windows[i].emitted
           /\ chk.windows[j].emitted
    /\ chk.chunks[Len(chk.chunks)].chunkIndex = 1

(***************************************************************************)
(* normalizeUrl taken alone, on strings.  A string is a sequence of        *)
(* tokens: the scheme "http:" (the only token that holds a colon, and      *)
(* only in front), the slash, the letters "a" and "A", the delimiters of   *)
(* the query and of the fragment and the name of a tracking parameter.  new URL() is modelled  *)
(* by what the parser does with these tokens: without a base a string      *)
(* that does not start with a scheme does not parse; after the scheme of   *)
(* a special URL any number of slashes is skipped; the host runs to the    *)
(* next slash or question mark, may not be empty and is lowercased; an     *)
(* empty path is "/"; the query is a list of name-value pairs; the         *)
(* fragment is what follows the first "#".  Writing the URL back gives     *)
(* "http://", the host, the path, the query serialized as                  *)
(* application/x-www-form-urlencoded and the fragment.  The strings given  *)
(* are every string of up to MaxUrlLen tokens, and the longer URLs put     *)
(* together from a host, a path, a query and a fragment of UrlShapes.      *)
(***************************************************************************)
MaxUrlLen == 5       \* tokens of a string given to normalizeUrl

UrlTokens == {"/", "a", "A", "?", "&", "=", "#", "utm_source"}

\* the strings of k tokens
TokenStrings(k) == [1..k -> UrlTokens]

\* the URLs of a host, a path, a query and a fragment
UrlShapes ==
    {<<"http:", "/", "/">> \o host \o path \o query \o hash :
        host \in {<<"a">>, <<"A">>},
        path \in {<<>>, <<"/">>, <<"/", "a">>, <<"/", "a", "/">>,
                  <<"/", "a", "/", "/">>, <<"/", "/", "/">>,
                  <<"/", "a", "/", "/", "a", "/", "/", "/">>},
        query \in {<<>>, <<"?">>, <<"?", "a", "=", "A">>,
                   <<"?", "utm_source", "=", "a", "&", "a">>,
                   <<"?", "a", "=", "/", "&", "utm_medium", "&", "A", "=", "a",
                     "&", "utm_campaign", "=", "a">>,
                   <<"?", "utm_campaign", "&", "utm_medium", "=", "a">>},
        hash \in {<<>>, <<"#">>, <<"#", "A", "/">>}}

\* the first index of s that holds a token of `stops`, Len(s) + 1 if none
FirstIn(s, stops) ==
    LET at == {i \in 1..Len(s) : s[i] \in stops}
    IN  IF at = {} THEN Len(s) + 1 ELSE CHOOSE i \in at : \A o \in at : i <= o

\* s from index i on
From(s, i) == SubSeq(s, i, Len(s))

RECURSIVE SkipSlashes(_)
\* the special authority ignore slashes state of the URL parser
SkipSlashes(s) ==
    IF s # <<>> /\ s[1] = "/" THEN SkipSlashes(Tail(s)) ELSE s

RECURSIVE SplitOn(_, _)
\* s.split(sep)
SplitOn(s, sep) ==
    LET i == FirstIn(s, {sep})
    IN  IF i > Len(s) THEN <<s>>
        ELSE <<SubSeq(s, 1, i - 1)>> \o SplitOn(From(s, i + 1), sep)

\* percent-decoding and the form-urlencoded percent-encoding of a token
PercentDecode(c) ==
    CASE c = "%2F" -> "/" [] c = "%3F" -> "?" [] c = "%3D" -> "=" [] OTHER -> c

PercentEncode(c) ==
    CASE c = "/" -> "%2F" [] c = "?" -> "%3F" [] c = "=" -> "%3D" [] OTHER -> c

DecodeSeq(s) == [i \in 1..Len(s) |-> PercentDecode(s[i])]

EncodeSeq(s) == [i \in 1..Len(s) |-> PercentEncode(s[i])]

NonEmpty(piece) == piece # <<>>

\* one name-value pair of a query: the piece is cut at its first "="
QueryPair(piece) ==
    LET i == FirstIn(piece, {"="})
    IN  [name  |-> DecodeSeq(SubSeq(piece, 1, i - 1)),
         value |-> DecodeSeq(From(piece, i + 1))]

\* the application/x-www-form-urlencoded parser: the list url.searchParams
ParseQuery(query) ==
    LET pieces == SelectSeq(SplitOn(query, "&"), NonEmpty)
    IN  [i \in 1..Len(pieces) |-> QueryPair(pieces[i])]

RECURSIVE SerializeQuery(_)
\* the application/x-www-form-urlencoded serializer
SerializeQuery(params) ==
    IF params = <<>> THEN <<>>
    ELSE EncodeSeq(params[1].name) \o <<"=">> \o EncodeSeq(params[1].value)
         \o (IF Len(params) > 1
             THEN <<"&">> \o SerializeQuery(Tail(params)) ELSE <<>>)

ParseFailure == [ok |-> FALSE]

\* new URL(url); the fragment is what follows the first "#", kept as it is,
\* and an empty fragment is not the same as none
NewURL(url) ==
    IF url = <<>> \/ url[1] # "http:" THEN ParseFailure
    ELSE LET input == SkipSlashes(Tail(url))
             hashAt == FirstIn(input, {"#"})
             rest == SubSeq(input, 1, hashAt - 1)
             hostEnd == FirstIn(rest, {"/", "?"})
             afterHost == From(rest, hostEnd)
             pathEnd == FirstIn(afterHost, {"?"})
             path == SubSeq(afterHost, 1, pathEnd - 1)
         IN  IF hostEnd = 1 THEN ParseFailure
             ELSE [ok           |-> TRUE,
                   hostname     |-> LowerSeq(SubSeq(rest, 1, hostEnd - 1)),
                   pathname     |-> IF path = <<>> THEN <<"/">> ELSE path,
                   searchParams |-> ParseQuery(From(afterHost, pathEnd + 1)),
                   hasHash      |-> hashAt <= Len(input),
                   hash         |-> From(input, hashAt + 1)]

\* parsed.pathname = value
SetPathname(value) ==
    IF value = <<>> \/ value[1] # "/" THEN <<"/">> \o value ELSE value

NotTrackingPair(pair) == \A name \in TrackingParams : pair.name # <<name>>

\* parsed.toString(); the query is written only when the list is not empty
URLToString(parsed) ==
    <<"http:", "/", "/">> \o parsed.hostname \o parsed.pathname
    \o (IF parsed.searchParams = <<>> THEN <<>>
        ELSE <<"?">> \o SerializeQuery(parsed.searchParams))
    \o (IF parsed.hasHash THEN <<"#">> \o parsed.hash ELSE <<>>)

\* normalizeUrl on strings
normalizeUrlString(url) ==
    LET parsed == NewURL(url)
    IN  IF parsed.ok
        THEN LET stripped == StripTrailingSlashes(parsed.pathname)
             IN  URLToString(
                     [ok           |-> TRUE,
                      hostname     |-> LowerSeq(parsed.hostname),
                      pathname     |-> SetPathname(IF stripped = <<>>
                                                   THEN <<"/">> ELSE stripped),
                      searchParams |-> SelectSeq(parsed.searchParams,
                                                 NotTrackingPair),
                      hasHash      |-> parsed.hasHash,
                      hash         |-> parsed.hash])
        ELSE StripTrailingSlashes(LowerSeq(url))

InitNormalize ==
    /\ exists = FALSE
    /\ db = NoDatabase
    /\ config = NoConfig
    /\ pc = "idle"
    /\ run = NoRun
    /\ hist = [runs |-> 0, pre |-> NoPre, origin |-> <<>>,
               indexed |-> [n \in NormUrls |-> <<>>], last |-> NoLast,
               pending |-> {}, purged |-> {}, rebuilds |-> 0]
    /\ emb = NoEmbedding
    /\ chk = NoChunking
    /\ crw = NoCrawling
    /\ \/ \E k \in 0..MaxUrlLen, scheme \in BOOLEAN :
              /\ scheme => k < MaxUrlLen
              /\ \E t \in TokenStrings(k) :
                     nrm = [pc    |-> "given",
                            url   |-> IF scheme THEN <<"http:">> \o t ELSE t,
                            once  |-> <<>>,
                            twice |-> <<>>]
       \/ \E url \in UrlShapes :
              nrm = [pc |-> "given", url |-> url, once |-> <<>>, twice |-> <<>>]

\* normalizeUrl(url)
NormalizeOnce ==
    /\ nrm.pc = "given"
    /\ nrm' = [nrm EXCEPT !.pc = "once", !.once = normalizeUrlString(nrm.url)]
    /\ UNCHANGED <<cmd, emb, chk, crw>>

\* normalizeUrl applied to the string it returned
NormalizeAgain ==
    /\ nrm.pc = "once"
    /\ nrm' = [nrm EXCEPT !.pc = "twice",
                          !.twice = normalizeUrlString(nrm.once)]
    /\ UNCHANGED <<cmd, emb, chk, crw>>

NextNormalize == NormalizeOnce \/ NormalizeAgain

SpecNormalize == InitNormalize /\ [][NextNormalize]_vars

(***************************************************************************)
(* Properties of normalizeUrl.                                             *)
(***************************************************************************)
\* the URL record the commands work with, for a string that parses
AsUrl(parsed) ==
    Url(parsed.hostname, parsed.pathname,
        [i \in 1..Len(parsed.searchParams) |-> parsed.searchParams[i].name[1]])

\* normalizeUrl on URL records is normalizeUrl on strings seen through the
\* parser, for the strings whose parameter names are one token
NormalizeUrlAbstraction ==
    nrm.pc \in {"once", "twice"} =>
        LET parsed == NewURL(nrm.url)
        IN  IF parsed.ok
            THEN (\A i \in 1..Len(parsed.searchParams) :
                      Len(parsed.searchParams[i].name) = 1)
                 => /\ NewURL(nrm.once).ok
                    /\ AsUrl(NewURL(nrm.once)) = normalizeUrl(AsUrl(parsed))
            ELSE nrm.once = normalizeUrl([wf |-> FALSE, raw |-> nrm.url]).raw

\* C22: normalizeUrl is idempotent: normalizing the string it returned
\* returns that string, for strings that parse as URLs and for strings that
\* do not.
C22_NormalizeIdempotent ==
    nrm.pc = "twice" => nrm.twice = nrm.once

\* a URL whose host, path and query were all changed by the first call
C22_Witness ==
    /\ nrm.pc = "twice"
    /\ nrm.url = <<"http:", "A", "/", "?", "utm_source">>
    /\ nrm.once = <<"http:", "/", "/", "a", "/">>

\* a string that does not parse and was changed by the first call, and a URL
\* whose query was written back percent-encoded
C22_WitnessUnparsed ==
    /\ nrm.pc = "twice"
    /\ nrm.url = <<"A", "/", "/">>
    /\ nrm.once = <<"a">>

C22_WitnessEncoded ==
    /\ nrm.pc = "twice"
    /\ nrm.url = <<"http:", "a", "?", "/">>
    /\ nrm.once = <<"http:", "/", "/", "a", "/", "?", "%2F", "=">>

\* the pathname with every slash at its end removed, "/" if nothing is left:
\* `stripped` is the start of `pathname`, what follows it is slashes only,
\* and `stripped` does not end in a slash unless it is the root
StrippedOf(pathname, stripped) ==
    IF \A i \in 1..Len(pathname) : pathname[i] = "/"
    THEN stripped = <<"/">>
    ELSE /\ Len(stripped) <= Len(pathname)
         /\ stripped = SubSeq(pathname, 1, Len(stripped))
         /\ \A i \in (Len(stripped) + 1)..Len(pathname) : pathname[i] = "/"
         /\ stripped[Len(stripped)] # "/"

\* the pairs of a query whose name is none of the three tracking names
Remaining(searchParams) ==
    LET Kept(pair) == pair.name \notin {<<"utm_source">>, <<"utm_medium">>,
                                        <<"utm_campaign">>}
    IN  SelectSeq(searchParams, Kept)

\* C34 as amended: for a well-formed URL normalizeUrl returns a URL of the
\* same scheme and the lowercased host whose path is the given path with
\* every trailing slash removed (the root path, and a path of slashes only,
\* is /), whose query holds the given parameters other than utm_source,
\* utm_medium and utm_campaign, names and values in their order, and whose
\* fragment is the given one.
C34_NormalizeStripsEveryTrailingSlash ==
    (nrm.pc \in {"once", "twice"} /\ NewURL(nrm.url).ok) =>
        LET given == NewURL(nrm.url)
            result == NewURL(nrm.once)
        IN  /\ result.ok
            /\ SubSeq(nrm.once, 1, 3) = <<"http:", "/", "/">>
            /\ result.hostname = given.hostname
            /\ result.hostname = LowerSeq(result.hostname)
            /\ StrippedOf(given.pathname, result.pathname)
            /\ result.searchParams = Remaining(given.searchParams)
            /\ result.hasHash = given.hasHash
            /\ result.hash = given.hash

\* C34: for a well-formed URL normalizeUrl removes exactly one trailing
\* slash from the path (the root path stays /) and only the three tracking
\* parameters, and keeps the scheme, the remaining query and the fragment.
C34_NormalizeStripsOneTrailingSlash ==
    (nrm.pc \in {"once", "twice"} /\ NewURL(nrm.url).ok) =>
        LET given == NewURL(nrm.url)
            result == NewURL(nrm.once)
        IN  /\ result.ok
            /\ SubSeq(nrm.once, 1, 3) = <<"http:", "/", "/">>
            /\ result.pathname
                   = IF given.pathname = <<"/">> THEN <<"/">>
                     ELSE StripOneTrailingSlash(given.pathname)
            /\ result.searchParams = Remaining(given.searchParams)
            /\ result.hasHash = given.hasHash
            /\ result.hash = given.hash

\* a URL whose path ends in three slashes, with two tracking parameters among
\* others and a fragment: the path is returned without any of the slashes
C34_Witness ==
    /\ nrm.pc = "once"
    /\ nrm.url = <<"http:", "/", "/", "A",
                   "/", "a", "/", "/", "a", "/", "/", "/",
                   "?", "a", "=", "/", "&", "utm_medium", "&", "A", "=", "a",
                   "&", "utm_campaign", "=", "a",
                   "#", "A", "/">>
    /\ nrm.once = <<"http:", "/", "/", "a",
                    "/", "a", "/", "/", "a",
                    "?", "a", "=", "%2F", "&", "A", "=", "a",
                    "#", "A", "/">>

(***************************************************************************)
(* The crawlers taken alone: crawlUrl, which follows links depth first by  *)
(* recursion, and crawlWithPlaywright, which follows them breadth first    *)
(* from a queue.  A URL string is its host followed by the tokens of its   *)
(* path; the seed may be typed without a path.  The site is a link graph:  *)
(* for each page, the hrefs of its links in document order, as the DOM     *)
(* gives them (absolute and serialized).  A fetch fails, or gives a page   *)
(* with too little text to keep, or a page that is kept.                   *)
(*                                                                         *)
(* crw.stack    crawlUrl: the calls of crawlPage that are in their loop    *)
(*              over links, innermost first, each with the links left      *)
(* crw.queue    crawlWithPlaywright: the queue of [url, depth]             *)
(* crw.fetched  history: the URLs given to fetch or page.goto, in order    *)
(***************************************************************************)
MaxCrawlDepth == 2   \* largest maxDepth of a call
MaxCrawlPages == 2   \* largest maxPages of a call

SiteRoot == <<"h", "/">>
SiteA == <<"h", "/", "a">>
SiteASlash == <<"h", "/", "a", "/">>
SiteB == <<"h", "/", "b">>

\* the seed URLs a call is given
CrawlSeeds == {<<"h">>, SiteRoot, SiteASlash}

\* the links a page may hold: to pages of the site, to an anchor of a page
\* and to another origin
LinkLists ==
    {<<>>, <<SiteRoot>>, <<SiteA, SiteB>>, <<SiteB, SiteRoot>>,
     <<<<"x", "/">>, <<"h", "/", "a", "#">>, SiteASlash>>, <<SiteA, SiteA>>}

SitePages == {SiteRoot, SiteA, SiteB}

LinkGraphs == [SitePages -> LinkLists]

FetchOutcomes == {"fail", "short", "doc"}

\* new URL(u).href: a URL without a path has the path "/"
Href(u) == IF Len(u) = 1 THEN u \o <<"/">> ELSE u

\* new URL(u).origin, and .hostname
Origin(u) == u[1]

\* href.includes("#")
IncludesHash(u) == \E i \in 1..Len(u) : u[i] = "#"

\* normalizeUrl of playwright.ts: no fragment, and no slash at the end of a
\* path other than "/"
normalizeUrlPlaywright(url) ==
    LET href == Href(url)
        hashAt == IF IncludesHash(href)
                  THEN CHOOSE i \in 1..Len(href) :
                           href[i] = "#" /\ \A j \in 1..(i - 1) : href[j] # "#"
                  ELSE Len(href) + 1
        noHash == SubSeq(href, 1, hashAt - 1)
    IN  IF Len(noHash) > 2 /\ noHash[Len(noHash)] = "/"
        THEN SubSeq(noHash, 1, Len(noHash) - 1)
        ELSE noHash

\* the page the site answers a request for url with: the fragment is not
\* sent, and the site serves a path with and without a slash at its end alike
Served(url) == normalizeUrlPlaywright(url)

CrawlerCall(kind, graph, startUrl, maxDepth, maxPages) ==
    [pc |-> "start", kind |-> kind, graph |-> graph, startUrl |-> startUrl,
     maxDepth |-> maxDepth, maxPages |-> maxPages,
     visited |-> {}, documents |-> <<>>, stack |-> <<>>, queue |-> <<>>,
     fetched |-> <<>>]

InitCrawl ==
    /\ exists = FALSE
    /\ db = NoDatabase
    /\ config = NoConfig
    /\ pc = "idle"
    /\ run = NoRun
    /\ hist = [runs |-> 0, pre |-> NoPre, origin |-> <<>>,
               indexed |-> [n \in NormUrls |-> <<>>], last |-> NoLast,
               pending |-> {}, purged |-> {}, rebuilds |-> 0]
    /\ emb = NoEmbedding
    /\ chk = NoChunking
    /\ nrm = NoNormalizing
    /\ \E kind \in {"crawlUrl", "crawlWithPlaywright"}, graph \in LinkGraphs,
          startUrl \in CrawlSeeds, maxDepth \in 0..MaxCrawlDepth,
          maxPages \in 1..MaxCrawlPages :
           crw = CrawlerCall(kind, graph, startUrl, maxDepth, maxPages)

\* the links crawlPage keeps of the page at url: same origin, not visited,
\* no fragment, the first 20
LinksToCrawl(c, url) ==
    LET Kept(link) == /\ Origin(link) = Origin(Href(c.startUrl))
                      /\ link \notin c.visited
                      /\ ~IncludesHash(link)
        links == SelectSeq(c.graph[Served(url)], Kept)
    IN  SubSeq(links, 1, Min(20, Len(links)))

\* crawlPage(url, depth) up to its loop over the links, on the call c
crawlPage(c, url, depth, outcome) ==
    IF depth > c.maxDepth \/ Len(c.documents) >= c.maxPages \/ url \in c.visited
    THEN c
    ELSE LET c1 == [c EXCEPT !.visited = @ \cup {url},
                             !.fetched = Append(@, url)]
             c2 == IF outcome = "doc"
                   THEN [c1 EXCEPT !.documents = Append(@, url)]
                   ELSE c1
         IN  IF outcome = "fail" THEN c1
             ELSE IF depth < c.maxDepth /\ Len(c2.documents) < c.maxPages
             THEN [c2 EXCEPT !.stack = <<[links |-> LinksToCrawl(c2, url),
                                          depth |-> depth]>> \o @]
             ELSE c2

\* crawlUrl calls crawlPage(startUrl, 0)
CrawlStart ==
    /\ crw.pc = "start"
    /\ crw.kind = "crawlUrl"
    /\ \E outcome \in FetchOutcomes :
           crw' = crawlPage([crw EXCEPT !.pc = "crawling"], crw.startUrl, 0,
                            outcome)
    /\ UNCHANGED <<cmd, emb, chk, nrm>>

\* one turn of the loop over the links of the innermost call, or its end
CrawlLink ==
    /\ crw.pc = "crawling"
    /\ crw.kind = "crawlUrl"
    /\ crw.stack # <<>>
    /\ LET top == Head(crw.stack)
       IN  IF top.links = <<>> \/ Len(crw.documents) >= crw.maxPages
           THEN crw' = [crw EXCEPT !.stack = Tail(@)]
           ELSE \E outcome \in FetchOutcomes :
                    crw' = crawlPage(
                               [crw EXCEPT !.stack[1].links = Tail(@)],
                               Head(top.links), top.depth + 1, outcome)
    /\ UNCHANGED <<cmd, emb, chk, nrm>>

\* crawlPage(startUrl, 0) has returned
CrawlReturn ==
    /\ crw.pc = "crawling"
    /\ crw.kind = "crawlUrl"
    /\ crw.stack = <<>>
    /\ crw' = [crw EXCEPT !.pc = "returned"]
    /\ UNCHANGED <<cmd, emb, chk, nrm>>

\* the links of the page at url that crawlWithPlaywright puts on the queue
LinksToQueue(c, url, depth) ==
    LET Kept(link) == /\ Origin(link) = Origin(Href(c.startUrl))
                      /\ ~IncludesHash(link)
                      /\ normalizeUrlPlaywright(link) \notin c.visited
        links == SelectSeq(c.graph[Served(url)], Kept)
    IN  [i \in 1..Len(links) |-> [url |-> links[i], depth |-> depth + 1]]

\* the browser is launched, or the launch throws
PlaywrightStart ==
    /\ crw.pc = "start"
    /\ crw.kind = "crawlWithPlaywright"
    /\ \/ crw' = [crw EXCEPT !.pc = "crawling",
                             !.queue = <<[url |-> crw.startUrl, depth |-> 0]>>]
       \/ crw' = [crw EXCEPT !.pc = "thrown"]
    /\ UNCHANGED <<cmd, emb, chk, nrm>>

\* one turn of the while loop
PlaywrightVisit ==
    /\ crw.pc = "crawling"
    /\ crw.kind = "crawlWithPlaywright"
    /\ crw.queue # <<>>
    /\ Len(crw.documents) < crw.maxPages
    /\ LET url == Head(crw.queue).url
           depth == Head(crw.queue).depth
           normalizedUrl == normalizeUrlPlaywright(url)
           c0 == [crw EXCEPT !.queue = Tail(@)]
           c1 == [c0 EXCEPT !.visited = @ \cup {normalizedUrl},
                            !.fetched = Append(@, url)]
       IN  IF normalizedUrl \in crw.visited
           THEN crw' = c0
           ELSE \E outcome \in FetchOutcomes :
                    LET c2 == IF outcome = "doc"
                              THEN [c1 EXCEPT !.documents =
                                                  Append(@, normalizedUrl)]
                              ELSE c1
                    IN  IF outcome = "fail" THEN crw' = c1
                        ELSE IF depth < crw.maxDepth
                        THEN crw' = [c2 EXCEPT !.queue =
                                         @ \o LinksToQueue(c2, url, depth)]
                        ELSE crw' = c2
    /\ UNCHANGED <<cmd, emb, chk, nrm>>

\* the while loop has ended: the browser is closed and the documents returned
PlaywrightReturn ==
    /\ crw.pc = "crawling"
    /\ crw.kind = "crawlWithPlaywright"
    /\ crw.queue = <<>> \/ Len(crw.documents) >= crw.maxPages
    /\ crw' = [crw EXCEPT !.pc = "returned"]
    /\ UNCHANGED <<cmd, emb, chk, nrm>>

NextCrawl ==
    \/ CrawlStart \/ CrawlLink \/ CrawlReturn
    \/ PlaywrightStart \/ PlaywrightVisit \/ PlaywrightReturn

SpecCrawl == InitCrawl /\ [][NextCrawl]_vars

(***************************************************************************)
(* Properties of the crawlers.                                             *)
(***************************************************************************)
RECURSIVE ReachWithin(_)
\* the pages of the site at most k links away from the page of the seed
ReachWithin(k) ==
    IF k = 0 THEN {Served(crw.startUrl)}
    ELSE LET near == ReachWithin(k - 1)
             LinkedFrom(p) ==
                 {Served(crw.graph[p][i]) :
                     i \in {j \in 1..Len(crw.graph[p]) :
                               Origin(crw.graph[p][j])
                                   = Origin(Href(crw.startUrl))}}
         IN  near \cup UNION {LinkedFrom(p) : p \in near}

\* no two entries of the list are spellings of one URL
NoUrlTwice(urls) ==
    \A i, j \in 1..Len(urls) : i # j => Href(urls[i]) # Href(urls[j])

\* no two entries of the list are the same string
NoStringTwice(urls) ==
    \A i, j \in 1..Len(urls) : i # j => urls[i] # urls[j]

\* C37: a crawler returns at most maxPages documents, returns no page that
\* is more than maxDepth links away from the seed, and neither fetches nor
\* returns a URL twice in one call, whatever the link graph.
C37_CrawlerBoundedAndDeduplicated ==
    crw.pc \in {"crawling", "returned"} =>
        /\ Len(crw.documents) <= crw.maxPages
        /\ \A i \in 1..Len(crw.documents) :
               Served(crw.documents[i]) \in ReachWithin(crw.maxDepth)
        /\ NoUrlTwice(crw.fetched)
        /\ NoUrlTwice(crw.documents)

\* C37 with the deduplication each crawler has: both keep to maxPages and
\* to maxDepth; crawlUrl fetches and returns no string twice, and
\* crawlWithPlaywright no URL twice
C37_CrawlerBoundedStringsOnce ==
    crw.pc \in {"crawling", "returned"} =>
        /\ Len(crw.documents) <= crw.maxPages
        /\ \A i \in 1..Len(crw.documents) :
               Served(crw.documents[i]) \in ReachWithin(crw.maxDepth)
        /\ NoStringTwice(crw.fetched)
        /\ NoStringTwice(crw.documents)
        /\ crw.kind = "crawlWithPlaywright" =>
               /\ NoUrlTwice(crw.fetched)
               /\ NoUrlTwice(crw.documents)
               /\ \A i, j \in 1..Len(crw.fetched) :
                      i # j => Served(crw.fetched[i]) # Served(crw.fetched[j])

\* both crawlers have returned maxPages documents from a graph with a cycle,
\* one of them from the deepest level allowed
C37_WitnessCycle ==
    /\ crw.pc = "returned"
    /\ Len(crw.documents) = crw.maxPages
    /\ crw.maxDepth = 1
    /\ crw.graph[SiteRoot] = <<SiteA, SiteB>>
    /\ crw.graph[SiteA] = <<SiteRoot>>
    /\ crw.documents[Len(crw.documents)] \in {SiteA, SiteB}

====
